---- MODULE Spec2Model ----
(***************************************************************************)
(* Rename refactoring and go-to-definition of crates/ide, as a state       *)
(* machine over one immutable analysis snapshot.  A snapshot is a set of   *)
(* parsed files: the token sequence of each file with byte ranges, its     *)
(* syntax nodes, and the module table of the semantic model; `db` names    *)
(* the snapshot the requests are served on.                                *)
(* Every request (rename, prepare_rename) is one action that reads the     *)
(* snapshot and stores the value it returns in `response`.                 *)
(*                                                                         *)
(* Offsets are 0-based byte offsets, ranges are half open <<lo, hi>>, as   *)
(* TextSize/TextRange are in the source.                                   *)
(***************************************************************************)
EXTENDS Integers, Sequences, FiniteSets, TLC

VARIABLES db, request, response

vars == <<db, request, response>>

(***************************************************************************)
(* Bounds of the model.                                                    *)
(***************************************************************************)
\* largest number of usages of the receiver in a method body
MaxUsages == 2
\* the most usages in a reference search result that is drawn freely
MaxRefs == 2

(***************************************************************************)
(* Syntax trees.  An item is a token sequence plus the nodes spanning it   *)
(* (token indices, nesting depth); Tok/Cat/Wrap build items the way the    *)
(* parser nests nodes, Finish computes the byte ranges.                    *)
(***************************************************************************)
NoRefs == {}

Tok(kind, text) == [toks |-> <<[kind |-> kind, text |-> text, refs |-> NoRefs]>>, nodes |-> {}]

\* a token that is an occurrence of entities: refs is a set of
\* [ent, kind, decl] (entity, ReferenceKind, is the declaration)
RefTok(kind, text, refs) == [toks |-> <<[kind |-> kind, text |-> text, refs |-> refs]>>, nodes |-> {}]

Empty == [toks |-> <<>>, nodes |-> {}]

ShiftNodes(nodes, k) == {[n EXCEPT !.first = @ + k, !.last = @ + k] : n \in nodes}

Cat2(a, b) == [toks |-> a.toks \o b.toks, nodes |-> a.nodes \cup ShiftNodes(b.nodes, Len(a.toks))]

RECURSIVE Cat(_)
Cat(items) == IF items = <<>> THEN Empty ELSE Cat2(Head(items), Cat(Tail(items)))

Wrap(kind, item) ==
    [toks |-> item.toks,
     nodes |-> {[n EXCEPT !.depth = @ + 1] : n \in item.nodes}
               \cup {[kind |-> kind, first |-> 1, last |-> Len(item.toks), depth |-> 0]}]

RECURSIVE TextOf(_)
TextOf(toks) == IF toks = <<>> THEN "" ELSE Head(toks).text \o TextOf(Tail(toks))

RECURSIVE Offsets(_, _)
Offsets(toks, start) ==
    IF toks = <<>> THEN <<>>
    ELSE <<[kind |-> Head(toks).kind, text |-> Head(toks).text, refs |-> Head(toks).refs,
            lo |-> start, hi |-> start + Len(Head(toks).text)]>>
         \o Offsets(Tail(toks), start + Len(Head(toks).text))

Finish(item) ==
    LET tokens == Offsets(item.toks, 0)
    IN [text |-> TextOf(item.toks),
        tokens |-> tokens,
        nodes |-> {[kind |-> n.kind, lo |-> tokens[n.first].lo, hi |-> tokens[n.last].hi,
                    depth |-> n.depth] : n \in item.nodes}]

Ws == Tok("WHITESPACE", " ")
P(text) == Tok("PUNCT", text)
Kw(text) == Tok("KW", text)
Ident(text) == Tok("IDENT", text)
SelfKw == Tok("SELF_KW", "self")

(***************************************************************************)
(* Option values are sequences of length 0 (None) or 1 (Some).             *)
(***************************************************************************)
None == <<>>
Some(x) == <<x>>

\* `let x = value;` followed by the code that uses x
Bind(value, Op(_)) == Op(value)
IsSome(o) == o # <<>>
Unwrap(o) == o[1]

(***************************************************************************)
(* Tree queries of the syntax crate, over a finished file.                 *)
(***************************************************************************)
RangeLen(r) == r[2] - r[1]
NodeRange(n) == <<n.lo, n.hi>>
TokRange(t) == <<t.lo, t.hi>>

\* TextRange::contains: lo <= o < hi
Contains(r, o) == r[1] <= o /\ o < r[2]
\* TextRange::contains_inclusive: lo <= o <= hi
ContainsInclusive(r, o) == r[1] <= o /\ o <= r[2]
\* TextRange::intersect(..).is_some(): touching ranges intersect in an empty range
Intersects(r, s) == (IF r[1] > s[1] THEN r[1] ELSE s[1]) <= (IF r[2] < s[2] THEN r[2] ELSE s[2])
\* TextRange::contains_range
ContainsRange(r, s) == r[1] <= s[1] /\ s[2] <= r[2]

\* SyntaxNode::token_at_offset: None, Single or Between(left, right), as
\* the sequence of the token indices in file order
TokenAtOffset(file, o) ==
    LET idx == {i \in 1..Len(file.tokens) : file.tokens[i].lo <= o /\ o <= file.tokens[i].hi}
    IN IF idx = {} THEN <<>>
       ELSE LET l == CHOOSE i \in idx : \A j \in idx : i <= j
                r == CHOOSE i \in idx : \A j \in idx : j <= i
            IN IF l = r THEN <<l>> ELSE <<l, r>>

\* token_at_offset(o).find(|t| t.kind() == kind): the index of the first
\* such token, as an option
FindTokenOfKind(file, o, kind) ==
    LET ts == SelectSeq(TokenAtOffset(file, o), LAMBDA i : file.tokens[i].kind = kind)
    IN IF ts = <<>> THEN None ELSE Some(ts[1])

\* the nodes a token lies in (its parent and the parent's ancestors)
TokenAncestors(file, i) ==
    {n \in file.nodes : n.lo <= file.tokens[i].lo /\ file.tokens[i].hi <= n.hi}

\* SyntaxToken::parent
TokenParent(file, i) ==
    CHOOSE n \in TokenAncestors(file, i) : \A m \in TokenAncestors(file, i) : m.depth <= n.depth

\* SyntaxNode::ancestors of a node, the node itself included
NodeAncestors(file, n) ==
    {m \in file.nodes : m.lo <= n.lo /\ n.hi <= m.hi /\ m.depth <= n.depth}

\* direct children of a node
Children(file, n) ==
    {m \in file.nodes : n.lo <= m.lo /\ m.hi <= n.hi /\ m.depth = n.depth + 1}

\* the indices of the tokens whose parent is the node
ChildTokens(file, n) ==
    {i \in 1..Len(file.tokens) :
        /\ n.lo <= file.tokens[i].lo /\ file.tokens[i].hi <= n.hi
        /\ TokenParent(file, i) = n}

\* the indices of all the tokens inside the node
NodeTokens(file, n) ==
    {i \in 1..Len(file.tokens) : n.lo <= file.tokens[i].lo /\ file.tokens[i].hi <= n.hi}

\* first element of a set of nodes in file order
FirstNode(ns) == CHOOSE n \in ns : \A m \in ns : n.lo <= m.lo

\* the deepest ancestor of the kind of a token, as an option
DeepestOfKind(file, i, kind) ==
    Bind({n \in TokenAncestors(file, i) : n.kind = kind}, LAMBDA c :
        IF c = {} THEN None ELSE Some(CHOOSE n \in c : \A m \in c : m.depth <= n.depth))

\* algo::find_node_at_offset::<N>: the ancestor chains of the tokens at the
\* offset are merged by range length (left chain first on a tie) and the
\* first node of the kind is taken
FindNodeAtOffset(file, kind, o) ==
    Bind(TokenAtOffset(file, o), LAMBDA ts :
        IF ts = <<>> THEN None
        ELSE IF Len(ts) = 1 THEN DeepestOfKind(file, ts[1], kind)
        ELSE Bind(DeepestOfKind(file, ts[1], kind), LAMBDA l :
             Bind(DeepestOfKind(file, ts[2], kind), LAMBDA r :
                IF l = None THEN r
                ELSE IF r = None THEN l
                ELSE IF RangeLen(NodeRange(Unwrap(r))) < RangeLen(NodeRange(Unwrap(l)))
                THEN r ELSE l)))

(***************************************************************************)
(* The lexer, as lex_single_syntax_kind uses it: the first token of the    *)
(* text, kept only when it spans the whole text.  (The grave accents of    *)
(* the lexer's messages are left out: a TLA+ string cannot hold one.)      *)
(***************************************************************************)
Lower == {"a", "b", "c", "d", "e", "f", "g", "h", "i", "j", "k", "l", "m",
          "n", "o", "p", "q", "r", "s", "t", "u", "v", "w", "x", "y", "z"}
Upper == {"A", "B", "C", "D", "E", "F", "G", "H", "I", "J", "K", "L", "M",
          "N", "O", "P", "Q", "R", "S", "T", "U", "V", "W", "X", "Y", "Z"}
Digit == {"0", "1", "2", "3", "4", "5", "6", "7", "8", "9"}
IdentStart == Lower \cup Upper \cup {"_"}
IdentContinue == IdentStart \cup Digit
Keywords == {"let", "fn", "mod", "impl", "mut", "struct", "use", "pub", "crate", "super",
             "static", "for", "trait"}

CharAt(text, i) == SubSeq(text, i, i)

\* length of the longest run of characters of the set starting at index i
RECURSIVE RunLen(_, _, _)
RunLen(text, i, set) ==
    IF i > Len(text) \/ CharAt(text, i) \notin set THEN 0 ELSE 1 + RunLen(text, i + 1, set)

\* index of the first occurrence of the character at or after i, 0 if none
RECURSIVE IndexOfChar(_, _, _)
IndexOfChar(text, i, c) ==
    IF i > Len(text) THEN 0
    ELSE IF CharAt(text, i) = c THEN i ELSE IndexOfChar(text, i + 1, c)

LexToken(kind, len, error) == [kind |-> kind, len |-> len, error |-> error]

WordKind(word) ==
    IF word = "_" THEN "UNDERSCORE"
    ELSE IF word = "self" THEN "SELF_KW"
    ELSE IF word \in Keywords THEN "KW"
    ELSE "IDENT"

\* the first token of a non-empty text
LexFirstToken(text) ==
    LET c == CharAt(text, 1)
        c2 == IF Len(text) >= 2 THEN CharAt(text, 2) ELSE ""
        c3 == IF Len(text) >= 3 THEN CharAt(text, 3) ELSE ""
    IN IF c = "r" /\ c2 = "#" /\ c3 \in IdentStart
         THEN LexToken("IDENT", 2 + RunLen(text, 3, IdentContinue), None)
       ELSE IF c \in IdentStart
         THEN LET n == RunLen(text, 1, IdentContinue)
              IN LexToken(WordKind(SubSeq(text, 1, n)), n, None)
       ELSE IF c \in Digit
         THEN LexToken("INT_NUMBER", RunLen(text, 1, Digit), None)
       ELSE IF c = " "
         THEN LexToken("WHITESPACE", RunLen(text, 1, {" "}), None)
       ELSE IF c = "'"
         THEN IF c2 \in IdentContinue /\ c3 # "'"
              THEN LexToken("LIFETIME_IDENT", 1 + RunLen(text, 2, IdentContinue),
                            IF c2 \in Digit
                            THEN Some("Lifetime name cannot start with a number")
                            ELSE None)
              ELSE IF IndexOfChar(text, 2, "'") = 0
                   THEN LexToken("CHAR", Len(text),
                                 Some("Missing trailing ' symbol to terminate the character literal"))
                   ELSE LexToken("CHAR", IndexOfChar(text, 2, "'"), None)
       ELSE IF c = "\""
         THEN IF IndexOfChar(text, 2, "\"") = 0
              THEN LexToken("STRING", Len(text),
                            Some("Missing trailing \" symbol to terminate the string literal"))
              ELSE LexToken("STRING", IndexOfChar(text, 2, "\""), None)
       ELSE LexToken("PUNCT", 1, None)

\* lex_single_syntax_kind: Some((kind, error)) when the text is one token
LexSingleSyntaxKind(text) ==
    IF text = "" THEN None
    ELSE LET t == LexFirstToken(text)
         IN IF t.len = Len(text) THEN Some(t) ELSE None

(***************************************************************************)
(* Source fragments, nested the way the parser nests them.                 *)
(***************************************************************************)
\* ReferenceKind of an occurrence, and the occurrence annotations of a token
Ref(ent, kind, decl) == [ent |-> ent, kind |-> kind, decl |-> decl]

NameOf(text, refs) == Wrap("NAME", RefTok("IDENT", text, refs))
NameRefOf(text, refs) == Wrap("NAME_REF", RefTok("IDENT", text, refs))

\* the type `Foo`
PathType(name) ==
    Wrap("PATH_TYPE", Wrap("PATH", Wrap("PATH_SEGMENT", NameRefOf(name, NoRefs))))
\* the types `&T` and `&mut T`
RefType(inner) == Wrap("REF_TYPE", Cat(<<P("&"), inner>>))
RefMutType(inner) == Wrap("REF_TYPE", Cat(<<P("&"), Kw("mut"), Ws, inner>>))
\* the type `()`
UnitType == Wrap("TUPLE_TYPE", Cat(<<P("("), P(")")>>))

\* `foo::self`, a path that ends in `self`
QualifiedSelfPath ==
    Wrap("PATH", Cat(<<Wrap("PATH", Wrap("PATH_SEGMENT", NameRefOf("foo", NoRefs))), P("::"),
                       Wrap("PATH_SEGMENT", SelfKw)>>))

\* `foo::self; use foo::self; fn g() { self; }`: the qualified path as an
\* expression and in a use item, and a nested function without a receiver
SelfPaths ==
    Cat(<<Wrap("EXPR_STMT", Cat(<<Wrap("PATH_EXPR", QualifiedSelfPath), P(";")>>)), Ws,
          Wrap("USE", Cat(<<Kw("use"), Ws, Wrap("USE_TREE", QualifiedSelfPath), P(";")>>)), Ws,
          Wrap("FN", Cat(<<Kw("fn"), Ws, NameOf("g", NoRefs),
                           Wrap("PARAM_LIST", Cat(<<P("("), P(")")>>)), Ws,
                           Wrap("BLOCK_EXPR",
                                Cat(<<P("{"), Ws,
                                      Wrap("EXPR_STMT",
                                           Cat(<<Wrap("PATH_EXPR",
                                                      Wrap("PATH", Wrap("PATH_SEGMENT", SelfKw))),
                                                 P(";")>>)),
                                      Ws, P("}")>>))>>)), Ws>>)

\* the types of the method fixtures, by name
TypeSyntax(ty) ==
    CASE ty = "Foo" -> PathType("Foo")
      [] ty = "Bar" -> PathType("Bar")
      [] ty = "&Foo" -> RefType(PathType("Foo"))
      [] ty = "&mut Foo" -> RefMutType(PathType("Foo"))
      [] ty = "&&Foo" -> RefType(RefType(PathType("Foo")))
      [] ty = "()" -> UnitType

\* `name: ty`, a parameter that declares the local `ent`
Param(name, ty, ent) ==
    Wrap("PARAM", Cat(<<Wrap("IDENT_PAT", NameOf(name, {Ref(ent, "Other", TRUE)})),
                        P(":"), Ws, TypeSyntax(ty)>>))

\* the receivers `self`, `mut self`, `&self`, `&mut self`
SelfParam(form) ==
    Wrap("SELF_PARAM",
         CASE form = "self" -> SelfKw
           [] form = "mut self" -> Cat(<<Kw("mut"), Ws, SelfKw>>)
           [] form = "&self" -> Cat(<<P("&"), SelfKw>>)
           [] form = "&mut self" -> Cat(<<P("&"), Kw("mut"), Ws, SelfKw>>))

\* the expression `self.i`
SelfFieldExpr ==
    Wrap("FIELD_EXPR",
         Cat(<<Wrap("PATH_EXPR", Wrap("PATH", Wrap("PATH_SEGMENT", SelfKw))),
               P("."), NameRefOf("i", NoRefs)>>))

\* the expression `name.i`, a usage of the local `ent`
LocalFieldExpr(name, ent) ==
    Wrap("FIELD_EXPR",
         Cat(<<Wrap("PATH_EXPR", Wrap("PATH", Wrap("PATH_SEGMENT",
                   NameRefOf(name, {Ref(ent, "Other", FALSE)})))),
               P("."), NameRefOf("i", NoRefs)>>))

ExprStmt(expr) == Wrap("EXPR_STMT", Cat(<<expr, P(";")>>))

\* `let self_var = 1;`: an identifier that contains the text `self`
LetSelfVar ==
    Wrap("LET_STMT",
         Cat(<<Kw("let"), Ws, Wrap("IDENT_PAT", NameOf("self_var", NoRefs)), Ws, P("="), Ws,
               Wrap("LITERAL", Tok("INT_NUMBER", "1")), P(";")>>))

\* a comment that contains the text `self`
SelfComment == Tok("COMMENT", "/*self*/")

\* n statements separated by blanks
RECURSIVE Repeat(_, _)
Repeat(item, n) == IF n = 0 THEN Empty ELSE Cat(<<item, Ws, Repeat(item, n - 1)>>)

\* `{ stmts }`
Block(stmts) == Wrap("BLOCK_EXPR", Cat(<<P("{"), Ws, stmts, P("}")>>))

\* `fn name(params) body`
Fn(name, params, body) ==
    Wrap("FN", Cat(<<Kw("fn"), Ws, NameOf(name, NoRefs),
                     Wrap("PARAM_LIST", Cat(<<P("("), params, P(")")>>)), Ws, body>>))

\* `impl ty { items }`
Impl(ty, items) ==
    Wrap("IMPL", Cat(<<Kw("impl"), Ws, TypeSyntax(ty), Ws,
                       Wrap("ASSOC_ITEM_LIST", Cat(<<P("{"), Ws, items, Ws, P("}")>>))>>))

\* `self::m!();`, a macro call whose path starts with `self`
SelfMacroCall ==
    Wrap("MACRO_CALL",
         Cat(<<Wrap("PATH", Cat(<<Wrap("PATH", Wrap("PATH_SEGMENT", SelfKw)), P("::"),
                                  Wrap("PATH_SEGMENT", NameRefOf("m", NoRefs))>>)),
               P("!"), Wrap("TOKEN_TREE", Cat(<<P("("), P(")")>>)), P(";")>>))

SourceFile(items) == Finish(Wrap("SOURCE_FILE", items))

(***************************************************************************)
(* Snapshots.  A snapshot holds the parsed files (by FileId), the module   *)
(* table of the semantic model, and the entities that have no navigation   *)
(* target.  `fixture` names the parameters the snapshot was built from.    *)
(***************************************************************************)
Fixture(family, impl, recv, lead, usages, decor) ==
    [family |-> family, impl |-> impl, recv |-> recv, lead |-> lead,
     usages |-> usages, decor |-> decor]

SelfForms == {"self", "mut self", "&self", "&mut self"}
ParamTypes == {"Foo", "&Foo", "&mut Foo", "&&Foo"}
ImplTypes == {"Foo", "&Foo", "Bar"}

\* a method `f` whose receiver is a self parameter, the parameter `foo` of
\* some type, or absent; optionally inside `impl <ty>`; the body uses the
\* receiver `usages` times
MethodFn(fx) ==
    LET isSelf == fx.recv \in SelfForms
        recv == IF isSelf THEN SelfParam(fx.recv)
                ELSE IF fx.recv = "none" THEN Empty
                ELSE Param("foo", fx.recv, "foo")
        other == Param("x", "()", "x")
        params == IF ~fx.lead THEN recv
                  ELSE IF isSelf THEN Cat(<<recv, P(","), Ws, other>>)
                  ELSE IF fx.recv = "none" THEN other
                  ELSE Cat(<<other, P(","), Ws, recv>>)
        use == IF isSelf \/ fx.recv = "none" THEN ExprStmt(SelfFieldExpr)
               ELSE ExprStmt(LocalFieldExpr("foo", "foo"))
        extras == IF fx.decor = "extras" THEN Cat(<<LetSelfVar, Ws, SelfComment, Ws>>)
                  ELSE IF fx.decor = "paths" THEN SelfPaths
                  ELSE Empty
    IN Fn("f", params, Block(Cat(<<extras, Repeat(use, fx.usages)>>)))

MethodFile(fx) ==
    LET tail == IF fx.decor = "tail" THEN SelfMacroCall ELSE Empty
    IN IF fx.impl = "none" THEN SourceFile(Cat(<<MethodFn(fx), tail>>))
       ELSE SourceFile(Impl(fx.impl, Cat(<<MethodFn(fx), tail>>)))

NoModules == [e \in {} |-> 0]

MethodSnapshot(fx) ==
    [fixture |-> fx, files |-> [f \in {0} |-> MethodFile(fx)], modules |-> NoModules,
     hidden |-> {}]

\* the decorated bodies are built for the methods that have, or lack, a
\* self parameter
MethodFixtures ==
    { Fixture("method", impl, recv, lead, n, "plain") :
        impl \in ImplTypes \cup {"none"}, recv \in SelfForms \cup ParamTypes \cup {"none"},
        lead \in BOOLEAN, n \in 0..MaxUsages }
    \cup { Fixture("method", impl, recv, FALSE, n, decor) :
        impl \in ImplTypes \cup {"none"}, recv \in SelfForms \cup {"none"},
        n \in 0..MaxUsages, decor \in {"extras", "tail"} }
    \cup { Fixture("method", "Foo", recv, FALSE, 1, "paths") : recv \in {"&self", "none"} }

(***************************************************************************)
(* Module snapshots: the module `foo` is a file (/foo.rs), a directory     *)
(* owning file (/foo/mod.rs), an inline module, or the crate root itself   *)
(* (named `foo` by an `extern crate self as foo`); /lib.rs uses it         *)
(* `usages` times in paths.                                                *)
(***************************************************************************)
\* the expression statement `foo::fun();`
ModulePathCall ==
    ExprStmt(Wrap("CALL_EXPR",
        Cat(<<Wrap("PATH_EXPR",
                Wrap("PATH", Cat(<<Wrap("PATH", Wrap("PATH_SEGMENT",
                                        NameRefOf("foo", {Ref("foo", "Other", FALSE)}))),
                                   P("::"), Wrap("PATH_SEGMENT", NameRefOf("fun", NoRefs))>>))),
              Wrap("ARG_LIST", Cat(<<P("("), P(")")>>))>>)))

\* `mod foo;` or `mod foo { }`
ModuleDecl(inline) ==
    Wrap("MODULE",
         Cat(<<Kw("mod"), Ws, NameOf("foo", {Ref("foo", "Other", TRUE)}),
               IF inline THEN Cat(<<Ws, Wrap("ITEM_LIST", Cat(<<P("{"), Ws, P("}")>>))>>)
               ELSE P(";")>>))

ModuleLibFile(fx) ==
    LET user == Fn("f", Empty, Block(Repeat(ModulePathCall, fx.usages)))
    IN IF fx.impl = "root" THEN SourceFile(user)
       ELSE SourceFile(Cat(<<ModuleDecl(fx.impl = "inline"), Ws, user>>))

ModuleOwnFile == SourceFile(Tok("COMMENT", "/*empty*/"))

\* the declaration site of the entity: the file and range of its name
DeclSite(files, ent) ==
    LET all == UNION {{<<f, i>> : i \in 1..Len(files[f].tokens)} : f \in DOMAIN files}
        sites == {s \in all : \E r \in files[s[1]].tokens[s[2]].refs : r.ent = ent /\ r.decl}
    IN IF sites = {} THEN None
       ELSE LET s == CHOOSE s \in sites : TRUE
            IN Some([file_id |-> s[1], name |-> TokRange(files[s[1]].tokens[s[2]])])

ModuleSnapshot(fx) ==
    LET outOfLine == fx.impl \in {"file", "mod_rs"}
        files == IF outOfLine
                 THEN [f \in {0, 1} |-> IF f = 0 THEN ModuleLibFile(fx) ELSE ModuleOwnFile]
                 ELSE [f \in {0} |-> ModuleLibFile(fx)]
    IN [fixture |-> fx, files |-> files,
        modules |-> [e \in {"foo"} |->
            [definition_source |->
                [kind |-> IF fx.impl = "inline" THEN "Module" ELSE "SourceFile",
                 file_id |-> IF outOfLine THEN 1 ELSE 0],
             is_mod_rs |-> fx.impl = "mod_rs",
             declaration_source |-> DeclSite(files, "foo")]],
        hidden |-> IF fx.decor = "hidden" THEN {"foo"} ELSE {}]

ModuleFixtures ==
    { Fixture("module", kind, "none", FALSE, n, decor) :
        kind \in {"file", "mod_rs", "inline", "root"}, n \in 0..MaxUsages,
        decor \in {"plain", "hidden"} }

(***************************************************************************)
(* Snapshots for the generic rename: a local binding `i` with usages, a    *)
(* lifetime parameter `'a` with usages, and an unresolved name.            *)
(***************************************************************************)
\* `let i = 1;`
LetLocal ==
    Wrap("LET_STMT",
         Cat(<<Kw("let"), Ws, Wrap("IDENT_PAT", NameOf("i", {Ref("i", "Other", TRUE)})), Ws,
               P("="), Ws, Wrap("LITERAL", Tok("INT_NUMBER", "1")), P(";")>>))

\* the expression statement `name;`
PathStmt(name, refs) ==
    ExprStmt(Wrap("PATH_EXPR", Wrap("PATH", Wrap("PATH_SEGMENT", NameRefOf(name, refs)))))

LocalFile(fx) ==
    SourceFile(Fn("main", Empty,
        Block(Cat(<<LetLocal, Ws, Repeat(PathStmt("i", {Ref("i", "Other", FALSE)}), fx.usages)>>))))

UnresolvedFile == SourceFile(Fn("main", Empty, Block(Cat(<<PathStmt("unresolved_ref", NoRefs), Ws>>))))

\* a file of no text: the root node and no token
EmptyFile ==
    [text |-> "", tokens |-> <<>>,
     nodes |-> {[kind |-> "SOURCE_FILE", lo |-> 0, hi |-> 0, depth |-> 0]}]

LifetimeOf(text, decl) ==
    Wrap("LIFETIME", RefTok("LIFETIME_IDENT", text, {Ref(text, "Lifetime", decl)}))

\* `_: &'a ()`
LifetimeParam ==
    Wrap("PARAM", Cat(<<Wrap("WILDCARD_PAT", Tok("UNDERSCORE", "_")), P(":"), Ws,
                        Wrap("REF_TYPE", Cat(<<P("&"), LifetimeOf("'a", FALSE), Ws, UnitType>>))>>))

RECURSIVE ParamsOf(_, _)
ParamsOf(param, n) ==
    IF n = 0 THEN Empty
    ELSE IF n = 1 THEN param
    ELSE Cat(<<param, P(","), Ws, ParamsOf(param, n - 1)>>)

\* `fn main<'a>(_: &'a (), ..) {}`
LifetimeFile(fx) ==
    SourceFile(Wrap("FN",
        Cat(<<Kw("fn"), Ws, NameOf("main", NoRefs),
              Wrap("GENERIC_PARAM_LIST",
                   Cat(<<P("<"), Wrap("LIFETIME_PARAM", LifetimeOf("'a", TRUE)), P(">")>>)),
              Wrap("PARAM_LIST", Cat(<<P("("), ParamsOf(LifetimeParam, fx.usages), P(")")>>)),
              Ws, Wrap("BLOCK_EXPR", Cat(<<P("{"), P("}")>>))>>)))

GenericSnapshot(fx) ==
    [fixture |-> fx,
     files |-> [f \in {0} |-> CASE fx.impl = "local" -> LocalFile(fx)
                                [] fx.impl = "lifetime" -> LifetimeFile(fx)
                                [] fx.impl = "unresolved" -> UnresolvedFile
                                [] fx.impl = "empty" -> EmptyFile],
     modules |-> NoModules, hidden |-> {}]

GenericFixtures ==
    { Fixture("generic", kind, "none", FALSE, n, "plain") :
        kind \in {"local", "lifetime"}, n \in 0..MaxUsages }
    \cup { Fixture("generic", kind, "none", FALSE, 0, "plain") : kind \in {"unresolved", "empty"} }

(***************************************************************************)
(* Snapshots with a record field: `struct Foo { f: () }` and a function    *)
(* `mk` whose parameter v initialises the field, written `Foo { f: v }`    *)
(* or, when both have one name, in the shorthand `Foo { v }`.              *)
(***************************************************************************)
\* `struct Foo { field: () }`
StructDef(field) ==
    Wrap("STRUCT",
         Cat(<<Kw("struct"), Ws, NameOf("Foo", NoRefs), Ws,
               Wrap("RECORD_FIELD_LIST",
                    Cat(<<P("{"), Ws,
                          Wrap("RECORD_FIELD",
                               Cat(<<NameOf(field, {Ref("field", "Other", TRUE)}), P(":"), Ws,
                                     UnitType>>)),
                          Ws, P("}")>>))>>))

\* the value expression of a record field: a path of one segment
ValueExpr(local, refs) ==
    Wrap("PATH_EXPR", Wrap("PATH", Wrap("PATH_SEGMENT", NameRefOf(local, refs))))

\* `field: local`, or `local` standing for both
RecordExprField(field, local, shorthand) ==
    Wrap("RECORD_EXPR_FIELD",
         IF shorthand
         THEN ValueExpr(local, {Ref("field", "FieldShorthandForField", FALSE),
                                Ref("local", "FieldShorthandForLocal", FALSE)})
         ELSE Cat(<<NameRefOf(field, {Ref("field", "RecordFieldExprOrPat", FALSE)}), P(":"), Ws,
                    ValueExpr(local, {Ref("local", "Other", FALSE)})>>))

\* `Foo { ... };`
RecordExprStmt(field, local, shorthand) ==
    ExprStmt(Wrap("RECORD_EXPR",
        Cat(<<Wrap("PATH", Wrap("PATH_SEGMENT", NameRefOf("Foo", NoRefs))), Ws,
              Wrap("RECORD_EXPR_FIELD_LIST",
                   Cat(<<P("{"), Ws, RecordExprField(field, local, shorthand), Ws, P("}")>>))>>)))

\* the field is named fx.impl, the local fx.recv
FieldFile(fx) ==
    SourceFile(Cat(<<StructDef(fx.impl), Ws,
                     Fn("mk", Param(fx.recv, "()", "local"),
                        Block(Repeat(RecordExprStmt(fx.impl, fx.recv, fx.decor = "shorthand"),
                                     fx.usages)))>>))

\* `let Foo { field } = value;`: the shorthand pattern binds a local of the
\* name of the field
RecordPatStmt(field, value) ==
    Wrap("LET_STMT",
         Cat(<<Kw("let"), Ws,
               Wrap("RECORD_PAT",
                    Cat(<<Wrap("PATH", Wrap("PATH_SEGMENT", NameRefOf("Foo", NoRefs))), Ws,
                          Wrap("RECORD_PAT_FIELD_LIST",
                               Cat(<<P("{"), Ws,
                                     Wrap("RECORD_PAT_FIELD",
                                          Wrap("IDENT_PAT",
                                               NameOf(field,
                                                      {Ref("field", "FieldShorthandForField", FALSE),
                                                       Ref("bound", "FieldShorthandForLocal", TRUE)}))),
                                     Ws, P("}")>>))>>)),
               Ws, P("="), Ws, ValueExpr(value, {Ref("local", "Other", FALSE)}), P(";")>>))

\* `let Foo { field: bound } = value;`: the pattern binds the field to a
\* local of another name
RecordPatExplicitStmt(field, bound, value) ==
    Wrap("LET_STMT",
         Cat(<<Kw("let"), Ws,
               Wrap("RECORD_PAT",
                    Cat(<<Wrap("PATH", Wrap("PATH_SEGMENT", NameRefOf("Foo", NoRefs))), Ws,
                          Wrap("RECORD_PAT_FIELD_LIST",
                               Cat(<<P("{"), Ws,
                                     Wrap("RECORD_PAT_FIELD",
                                          Cat(<<NameRefOf(field,
                                                          {Ref("field", "RecordFieldExprOrPat", FALSE)}),
                                                P(":"), Ws,
                                                Wrap("IDENT_PAT",
                                                     NameOf(bound, {Ref("bound", "Other", TRUE)}))>>)),
                                     Ws, P("}")>>))>>)),
               Ws, P("="), Ws, ValueExpr(value, {Ref("local", "Other", FALSE)}), P(";")>>))

\* the field fx.impl is taken out of the parameter fx.recv by a pattern,
\* into a local of the name of the field or into one of the name fx.recv
PatternFile(fx) ==
    SourceFile(Cat(<<StructDef(fx.impl), Ws,
                     Fn("mk", Param(fx.recv, "Foo", "local"),
                        Block(Cat(<<IF fx.decor = "pattern"
                                    THEN RecordPatStmt(fx.impl, fx.recv)
                                    ELSE RecordPatExplicitStmt(fx.impl, fx.recv, fx.recv),
                                    Ws>>)))>>))

FieldSnapshot(fx) ==
    [fixture |-> fx,
     files |-> [f \in {0} |-> IF fx.decor \in {"pattern", "pattern_explicit"}
                              THEN PatternFile(fx) ELSE FieldFile(fx)],
     modules |-> NoModules, hidden |-> {}]

PatternFixtures ==
    { Fixture("field", "i", "foo", FALSE, 1, decor) : decor \in {"pattern", "pattern_explicit"} }

FieldFixtures ==
    { Fixture("field", field, "foo", FALSE, 1, "explicit") : field \in {"i", "j"} }
    \cup { Fixture("field", "foo", "foo", FALSE, 1, "shorthand") }

Fixtures ==
    MethodFixtures \cup ModuleFixtures \cup GenericFixtures \cup FieldFixtures
    \cup PatternFixtures

\* the snapshot of every fixture
Snapshots ==
    [fx \in Fixtures |->
        CASE fx.family = "method" -> MethodSnapshot(fx)
          [] fx.family = "module" -> ModuleSnapshot(fx)
          [] fx.family = "generic" -> GenericSnapshot(fx)
          [] fx.family = "field" -> FieldSnapshot(fx)]

(***************************************************************************)
(* The semantic model, as far as rename consults it.                       *)
(***************************************************************************)
Position(file_id, offset) == [file_id |-> file_id, offset |-> offset]

Reference(file_id, range, kind) == [file_id |-> file_id, range |-> range, kind |-> kind]

TypeKinds == {"PATH_TYPE", "REF_TYPE", "TUPLE_TYPE"}

\* hir::Type of a type node: the reference layers, outermost first, and the
\* name of the referent
RECURSIVE HirType(_, _)
HirType(file, ty) ==
    IF ty.kind = "REF_TYPE"
    THEN LET inner == HirType(file, FirstNode({c \in Children(file, ty) : c.kind \in TypeKinds}))
             isMut == \E i \in ChildTokens(file, ty) : file.tokens[i].text = "mut"
         IN [refs |-> <<IF isMut THEN "mut" ELSE "shared">> \o inner.refs, name |-> inner.name]
    ELSE IF ty.kind = "PATH_TYPE"
    THEN LET i == CHOOSE i \in NodeTokens(file, ty) :
                    /\ file.tokens[i].kind = "IDENT"
                    /\ \A j \in NodeTokens(file, ty) : file.tokens[j].kind = "IDENT" => j <= i
         IN [refs |-> <<>>, name |-> file.tokens[i].text]
    ELSE [refs |-> <<>>, name |-> "()"]

\* Type::remove_ref
RemoveRef(ty) == IF ty.refs = <<>> THEN None ELSE Some([ty EXCEPT !.refs = Tail(@)])
\* Type::is_mutable_reference
IsMutableReference(ty) == ty.refs # <<>> /\ Head(ty.refs) = "mut"

\* ast::Fn::param_list
ParamListOf(file, fn) ==
    LET ls == {c \in Children(file, fn) : c.kind = "PARAM_LIST"}
    IN IF ls = {} THEN None ELSE Some(FirstNode(ls))
\* ast::ParamList::params, as the set of the PARAM children
ParamsOfList(file, list) == {c \in Children(file, list) : c.kind = "PARAM"}
\* ast::ParamList::self_param
SelfParamOfList(file, list) ==
    LET ss == {c \in Children(file, list) : c.kind = "SELF_PARAM"}
    IN IF ss = {} THEN None ELSE Some(FirstNode(ss))

\* hir::Function::self_param(db).is_some()
FnHasSelfParam(file, fn) ==
    /\ IsSome(ParamListOf(file, fn))
    /\ IsSome(SelfParamOfList(file, Unwrap(ParamListOf(file, fn))))

\* the type of the first entry of hir::Function::assoc_fn_params, for a
\* function without a self parameter
FirstParamType(file, fn) ==
    LET ps == ParamsOfList(file, Unwrap(ParamListOf(file, fn)))
        p == FirstNode(ps)
    IN HirType(file, FirstNode({c \in Children(file, p) : c.kind \in TypeKinds}))

\* ast::Impl::self_ty: the second type child (`impl Trait for Type`) or the
\* only one
ImplSelfTy(file, impl) ==
    LET tys == {c \in Children(file, impl) : c.kind \in TypeKinds}
    IN IF tys = {} THEN None
       ELSE IF Cardinality(tys) = 1 THEN Some(FirstNode(tys))
       ELSE Some(FirstNode(tys \ {FirstNode(tys)}))

\* hir::Impl::target_ty
ImplTargetTy(file, impl) == HirType(file, Unwrap(ImplSelfTy(file, impl)))

\* the module an identifier token classifies as, if any:
\* NameClass::classify / NameRefClass::classify yielding
\* Definition(ModuleDef(Module(m)))
ClassifyModule(d, file_id, i) ==
    LET ms == {r.ent : r \in d.files[file_id].tokens[i].refs} \cap DOMAIN d.modules
    IN IF ms = {} THEN None ELSE Some(CHOOSE m \in ms : TRUE)

\* the occurrences of an entity in a file from token i on, in file order
RECURSIVE RefsInFile(_, _, _, _, _)
RefsInFile(file, file_id, ent, decl, i) ==
    IF i > Len(file.tokens) THEN <<>>
    ELSE LET rs == {r \in file.tokens[i].refs : r.ent = ent /\ r.decl = decl}
         IN (IF rs = {} THEN <<>>
             ELSE <<Reference(file_id, TokRange(file.tokens[i]), (CHOOSE r \in rs : TRUE).kind)>>)
            \o RefsInFile(file, file_id, ent, decl, i + 1)

\* the occurrences of an entity in the files from file_id on
RECURSIVE RefsInFiles(_, _, _, _)
RefsInFiles(d, ent, decl, file_id) ==
    IF file_id \notin DOMAIN d.files THEN <<>>
    ELSE RefsInFile(d.files[file_id], file_id, ent, decl, 1)
         \o RefsInFiles(d, ent, decl, file_id + 1)

\* the declaration of an entity: its name, or the whole file of an entity
\* without a name of its own (the crate root)
DeclarationOf(d, ent) ==
    Bind(RefsInFiles(d, ent, TRUE, 0), LAMBDA decls :
        IF decls # <<>> THEN decls[1]
        ELSE Reference(d.modules[ent].definition_source.file_id,
                       <<0, Len(d.files[d.modules[ent].definition_source.file_id].text)>>,
                       "Other"))

\* NameClass / NameRefClass::definition: the entity an occurrence stands
\* for; a field shorthand stands for its local
EntityOf(refs) ==
    (CHOOSE r \in refs : \A q \in refs : q.kind = "FieldShorthandForLocal" => q = r).ent

\* references::find_all_refs: the entity an occurrence at the offset
\* belongs to, with its declaration and its usages; None when there is no
\* occurrence at the offset or the entity has no navigation target
FindAllRefs(d, position) ==
    Bind(SelectSeq(TokenAtOffset(d.files[position.file_id], position.offset),
                   LAMBDA i : d.files[position.file_id].tokens[i].refs # {}), LAMBDA ts :
        IF ts = <<>> THEN None
        ELSE Bind(d.files[position.file_id].tokens[ts[1]], LAMBDA tok :
             Bind(EntityOf(tok.refs), LAMBDA ent :
                IF ent \in d.hidden THEN None
                ELSE Some([range |-> TokRange(tok),
                           declaration |-> DeclarationOf(d, ent),
                           references |-> RefsInFiles(d, ent, FALSE, 0)]))))

\* ReferenceSearchResult::into_iter: the declaration, then the usages
RefsIntoIter(refs) == <<refs.declaration>> \o refs.references

(***************************************************************************)
(* Results.  A RenameError message is the sequence of its pieces; the      *)
(* pieces at even places are the ones format! puts between grave accents,  *)
(* so <<"Invalid name ", n, ": not an identifier">> is the message         *)
(* "Invalid name 'n': not an identifier" with grave accents as quotes.     *)
(* `trace` records the functions of the rename module that were entered    *)
(* and the collaborators that were consulted, in order.                    *)
(***************************************************************************)
Message(text) == <<text>>
InvalidName(new_name, detail) == <<"Invalid name ", new_name, ": " \o detail>>

\* the per-file edit sets of a list of edits from the k-th on, put into acc:
\* an edit joins the set of its file, or opens one behind the others
RECURSIVE CollectByFile(_, _, _)
CollectByFile(edits, k, acc) ==
    IF k > Len(edits) THEN acc
    ELSE CollectByFile(edits, k + 1,
            IF \E j \in DOMAIN acc : acc[j].file_id = edits[k].file_id
            THEN [j \in DOMAIN acc |->
                    IF acc[j].file_id = edits[k].file_id
                    THEN [acc[j] EXCEPT !.indels = Append(@, [delete |-> edits[k].delete,
                                                              insert |-> edits[k].insert])]
                    ELSE acc[j]]
            ELSE Append(acc, [file_id |-> edits[k].file_id,
                              indels |-> <<[delete |-> edits[k].delete,
                                            insert |-> edits[k].insert]>>]))

\* SourceChange::from with one entry for every edit, whatever its file
SourceChangeFrom_entry_per_edit(edits) ==
    [k \in DOMAIN edits |->
        [file_id |-> edits[k].file_id,
         indels |-> <<[delete |-> edits[k].delete, insert |-> edits[k].insert]>>]]

\* SourceChange::from / SourceChange::from_edits: the edits of the
\* strategies collected under one per-file edit set for every file
SourceChangeFrom(edits) == CollectByFile(edits, 1, <<>>)

\* `source_file_edits` holds the edits as the strategy made them, in order;
\* `source_change` holds them as the SourceChange returned carries them
Err(message, trace) ==
    [ok |-> FALSE, err |-> message, range |-> <<0, 0>>, source_file_edits |-> <<>>,
     file_system_edits |-> <<>>, source_change |-> <<>>, trace |-> trace]

Ok(range, source_file_edits, file_system_edits, trace) ==
    [ok |-> TRUE, err |-> <<>>, range |-> range, source_file_edits |-> source_file_edits,
     file_system_edits |-> file_system_edits,
     source_change |-> SourceChangeFrom(source_file_edits), trace |-> trace]

Traced(prefix, res) == [res EXCEPT !.trace = prefix \o @]

\* SourceFileEdit { file_id, edit: TextEdit::replace(range, text) }
SourceFileEdit(file_id, range, text) == [file_id |-> file_id, delete |-> range, insert |-> text]

\* FileSystemEdit::MoveFile { src, dst: AnchoredPathBuf { anchor, path } }
MoveFile(src, anchor, path) == [src |-> src, anchor |-> anchor, path |-> path]

MapSeq(s, Op(_)) == [i \in 1..Len(s) |-> Op(s[i])]

(***************************************************************************)
(* crates/ide/src/references/rename.rs                                     *)
(***************************************************************************)
\* algo::find_node_at_range::<N>: the deepest node of the kind that covers
\* the range
FindNodeAtRange(file, kind, range) ==
    LET ns == {n \in file.nodes : n.kind = kind /\ ContainsRange(NodeRange(n), range)}
    IN IF ns = {} THEN None
       ELSE Some(CHOOSE n \in ns : \A m \in ns : m.depth <= n.depth)

\* the text of the single token of a NAME or NAME_REF node
NameText(file, n) == file.tokens[CHOOSE i \in NodeTokens(file, n) : TRUE].text

\* RecordExprField::expr().and_then(|e| e.name_ref()): the name of a value
\* expression that is a one-segment path
FieldExprNameRef(file, field) ==
    LET es == {c \in Children(file, field) : c.kind = "PATH_EXPR"}
        ns == {n \in file.nodes : n.kind = "NAME_REF" /\ es # {}
                                  /\ ContainsRange(NodeRange(FirstNode(es)), NodeRange(n))}
    IN IF Cardinality(ns) = 1 THEN Some(NameText(file, FirstNode(ns))) ELSE None

\* RecordPatField::pat() being an IdentPat, and its name
FieldPatName(file, field) ==
    LET ps == {c \in Children(file, field) : c.kind = "IDENT_PAT"}
        ns == {n \in file.nodes : n.kind = "NAME" /\ ps # {}
                                  /\ ContainsRange(NodeRange(FirstNode(ps)), NodeRange(n))}
    IN IF ns = {} THEN None ELSE Some(NameText(file, FirstNode(ns)))

\* edit_text_range_for_record_field_expr_or_pat without the look at the
\* patterns
edit_text_range_for_record_field_expr_only(d, file_range, new_name) ==
    Bind(d.files[file_range.file_id], LAMBDA file :
    Bind(FindNodeAtRange(file, "RECORD_EXPR_FIELD", file_range.range), LAMBDA field_expr :
        IF IsSome(field_expr) /\ FieldExprNameRef(file, Unwrap(field_expr)) = Some(new_name)
        THEN NodeRange(Unwrap(field_expr))
        ELSE file_range.range))

edit_text_range_for_record_field_expr_or_pat(d, file_range, new_name) ==
    Bind(d.files[file_range.file_id], LAMBDA file :
    Bind(FindNodeAtRange(file, "RECORD_EXPR_FIELD", file_range.range), LAMBDA field_expr :
        IF IsSome(field_expr) /\ FieldExprNameRef(file, Unwrap(field_expr)) = Some(new_name)
        THEN NodeRange(Unwrap(field_expr))
        ELSE Bind(FindNodeAtRange(file, "RECORD_PAT_FIELD", file_range.range), LAMBDA field_pat :
            IF IsSome(field_pat) /\ FieldPatName(file, Unwrap(field_pat)) = Some(new_name)
            THEN NodeRange(Unwrap(field_pat))
            ELSE file_range.range)))

\* source_edit_from_reference without the arms for the field shorthands
source_edit_from_reference_no_shorthand(d, reference, new_name) ==
    IF reference.kind = "RecordFieldExprOrPat"
    THEN SourceFileEdit(reference.file_id,
             edit_text_range_for_record_field_expr_or_pat(d, reference, new_name), new_name)
    ELSE SourceFileEdit(reference.file_id, reference.range, new_name)

source_edit_from_reference(d, reference, new_name) ==
    IF reference.kind = "FieldShorthandForField"
    THEN SourceFileEdit(reference.file_id, <<reference.range[1], reference.range[1]>>,
                        new_name \o ": ")
    ELSE IF reference.kind = "FieldShorthandForLocal"
    THEN SourceFileEdit(reference.file_id, <<reference.range[2], reference.range[2]>>,
                        ": " \o new_name)
    ELSE IF reference.kind = "RecordFieldExprOrPat"
    THEN SourceFileEdit(reference.file_id,
             edit_text_range_for_record_field_expr_or_pat(d, reference, new_name), new_name)
    ELSE SourceFileEdit(reference.file_id, reference.range, new_name)

\* the edits of a sequence of references
ReferenceEdits(d, refs, new_name) ==
    MapSeq(refs, LAMBDA r : source_edit_from_reference(d, r, new_name))

find_module_at_offset(d, position) ==
    Bind(FindTokenOfKind(d.files[position.file_id], position.offset, "IDENT"), LAMBDA ident :
        IF ident = None THEN None
        ELSE IF TokenParent(d.files[position.file_id], Unwrap(ident)).kind \in {"NAME_REF", "NAME"}
        THEN ClassifyModule(d, position.file_id, Unwrap(ident))
        ELSE None)

\* ModuleFileSystemEdits with the two destination paths exchanged
ModuleFileSystemEdits_swapped(m, new_name) ==
    IF m.definition_source.kind = "SourceFile"
    THEN <<MoveFile(m.definition_source.file_id, m.definition_source.file_id,
                    IF m.is_mod_rs THEN new_name \o ".rs" ELSE "../" \o new_name \o "/mod.rs")>>
    ELSE <<>>

\* the file move of a module rename
ModuleFileSystemEdits(m, new_name) ==
    IF m.definition_source.kind = "SourceFile"
    THEN <<MoveFile(m.definition_source.file_id, m.definition_source.file_id,
                    IF m.is_mod_rs THEN "../" \o new_name \o "/mod.rs" ELSE new_name \o ".rs")>>
    ELSE <<>>

\* the edit of the name at the declaration site of a module
ModuleDeclarationEdits(m, new_name) ==
    IF IsSome(m.declaration_source)
    THEN <<SourceFileEdit(Unwrap(m.declaration_source).file_id,
                          Unwrap(m.declaration_source).name, new_name)>>
    ELSE <<>>

\* rename_mod that hands out the queued edits along with the error
rename_mod_partial(d, position, module, new_name) ==
    Bind(ModuleFileSystemEdits(d.modules[module], new_name), LAMBDA file_system_edits :
    Bind(ModuleDeclarationEdits(d.modules[module], new_name), LAMBDA decl_edits :
    Bind(FindAllRefs(d, position), LAMBDA found :
        IF found = None
        THEN [Err(Message("No references found at position"), <<"rename_mod", "find_all_refs">>)
                EXCEPT !.source_file_edits = decl_edits, !.file_system_edits = file_system_edits]
        ELSE Ok(Unwrap(found).range,
                decl_edits \o ReferenceEdits(d, Unwrap(found).references, new_name),
                file_system_edits, <<"rename_mod", "find_all_refs">>))))

\* rename_mod with the edit of the declaration site after the usages
rename_mod_usages_first(d, position, module, new_name) ==
    Bind(ModuleFileSystemEdits(d.modules[module], new_name), LAMBDA file_system_edits :
    Bind(ModuleDeclarationEdits(d.modules[module], new_name), LAMBDA decl_edits :
    Bind(FindAllRefs(d, position), LAMBDA found :
        IF found = None
        THEN Err(Message("No references found at position"), <<"rename_mod", "find_all_refs">>)
        ELSE Ok(Unwrap(found).range,
                ReferenceEdits(d, Unwrap(found).references, new_name) \o decl_edits,
                file_system_edits, <<"rename_mod", "find_all_refs">>))))

rename_mod(d, position, module, new_name) ==
    Bind(ModuleFileSystemEdits(d.modules[module], new_name), LAMBDA file_system_edits :
    Bind(ModuleDeclarationEdits(d.modules[module], new_name), LAMBDA decl_edits :
    Bind(FindAllRefs(d, position), LAMBDA found :
        IF found = None
        THEN Err(Message("No references found at position"), <<"rename_mod", "find_all_refs">>)
        ELSE Ok(Unwrap(found).range,
                decl_edits \o ReferenceEdits(d, Unwrap(found).references, new_name),
                file_system_edits, <<"rename_mod", "find_all_refs">>))))

\* SelfFormOf without the case of an impl on a reference type
SelfFormOf_impl_ref_ignored(first_param_ty, impl_ty) ==
    IF IsSome(RemoveRef(first_param_ty))
    THEN [ty |-> Unwrap(RemoveRef(first_param_ty)),
          self_param |-> IF IsMutableReference(first_param_ty) THEN "&mut self" ELSE "&self"]
    ELSE [ty |-> first_param_ty, self_param |-> "self"]

\* the type that must equal the impl's target type, and the receiver form
SelfFormOf(first_param_ty, impl_ty) ==
    IF IsSome(RemoveRef(impl_ty))
    THEN [ty |-> first_param_ty, self_param |-> "self"]
    ELSE IF IsSome(RemoveRef(first_param_ty))
    THEN [ty |-> Unwrap(RemoveRef(first_param_ty)),
          self_param |-> IF IsMutableReference(first_param_ty) THEN "&mut self" ELSE "&self"]
    ELSE [ty |-> first_param_ty, self_param |-> "self"]

\* SelfIntroductionEdits with an edit for every reference, the ones in the
\* parameter included
SelfIntroductionEdits_unsplit(d, position, param_range, self_param, found) ==
    IF found = None
    THEN Err(Message("No reference found at position"), <<"rename_to_self", "find_all_refs">>)
    ELSE Ok(Unwrap(found).range,
            ReferenceEdits(d, RefsIntoIter(Unwrap(found)), "self")
            \o <<SourceFileEdit(position.file_id, param_range, self_param)>>,
            <<>>, <<"rename_to_self", "find_all_refs">>)

\* the end of rename_to_self: the references are split and rewritten
SelfIntroductionEdits(d, position, param_range, self_param, found) ==
    IF found = None
    THEN Err(Message("No reference found at position"), <<"rename_to_self", "find_all_refs">>)
    ELSE Bind(RefsIntoIter(Unwrap(found)), LAMBDA refs :
         IF SelectSeq(refs, LAMBDA r : Intersects(param_range, r.range)) = <<>>
         THEN Err(Message("Parameter to rename not found"),
                  <<"rename_to_self", "find_all_refs">>)
         ELSE Ok(Unwrap(found).range,
                 ReferenceEdits(d, SelectSeq(refs, LAMBDA r : ~Intersects(param_range, r.range)),
                                "self")
                 \o <<SourceFileEdit(position.file_id, param_range, self_param)>>,
                 <<>>, <<"rename_to_self", "find_all_refs">>))

\* rename_to_self from the point where the result of find_all_refs is known
rename_to_self_given(d, position, found) ==
    Bind(d.files[position.file_id], LAMBDA file :
    Bind(FindNodeAtOffset(file, "FN", position.offset), LAMBDA fn_ast :
    IF fn_ast = None
    THEN Err(Message("No surrounding method declaration found"), <<"rename_to_self">>)
    ELSE Bind(ParamListOf(file, Unwrap(fn_ast)), LAMBDA list :
    Bind(IF list = None THEN {} ELSE ParamsOfList(file, Unwrap(list)), LAMBDA params :
    IF params = {}
    THEN Err(Message("Method has no parameters"), <<"rename_to_self">>)
    ELSE Bind(NodeRange(FirstNode(params)), LAMBDA param_range :
    IF ~Contains(param_range, position.offset)
    THEN Err(Message("Only the first parameter can be self"), <<"rename_to_self">>)
    ELSE Bind(FindNodeAtOffset(file, "IMPL", position.offset), LAMBDA impl_block :
    IF impl_block = None
    THEN Err(Message("No impl block found for function"), <<"rename_to_self">>)
    ELSE IF FnHasSelfParam(file, Unwrap(fn_ast))
    THEN Err(Message("Method already has a self parameter"), <<"rename_to_self">>)
    ELSE Bind(ImplTargetTy(file, Unwrap(impl_block)), LAMBDA impl_ty :
    Bind(SelfFormOf(FirstParamType(file, Unwrap(fn_ast)), impl_ty), LAMBDA form :
    IF form.ty # impl_ty
    THEN Err(Message("Parameter type differs from impl block type"), <<"rename_to_self">>)
    ELSE SelfIntroductionEdits(d, position, param_range, form.self_param,
                               found)))))))))

\* rename_to_self with the impl block looked up before the first parameter
rename_to_self_impl_first(d, position) ==
    Bind(d.files[position.file_id], LAMBDA file :
    Bind(FindNodeAtOffset(file, "FN", position.offset), LAMBDA fn_ast :
    IF fn_ast = None
    THEN Err(Message("No surrounding method declaration found"), <<"rename_to_self">>)
    ELSE Bind(FindNodeAtOffset(file, "IMPL", position.offset), LAMBDA impl_block :
    IF impl_block = None
    THEN Err(Message("No impl block found for function"), <<"rename_to_self">>)
    ELSE Bind(ParamListOf(file, Unwrap(fn_ast)), LAMBDA list :
    Bind(IF list = None THEN {} ELSE ParamsOfList(file, Unwrap(list)), LAMBDA params :
    IF params = {}
    THEN Err(Message("Method has no parameters"), <<"rename_to_self">>)
    ELSE Bind(NodeRange(FirstNode(params)), LAMBDA param_range :
    IF ~Contains(param_range, position.offset)
    THEN Err(Message("Only the first parameter can be self"), <<"rename_to_self">>)
    ELSE IF FnHasSelfParam(file, Unwrap(fn_ast))
    THEN Err(Message("Method already has a self parameter"), <<"rename_to_self">>)
    ELSE Bind(ImplTargetTy(file, Unwrap(impl_block)), LAMBDA impl_ty :
    Bind(SelfFormOf(FirstParamType(file, Unwrap(fn_ast)), impl_ty), LAMBDA form :
    IF form.ty # impl_ty
    THEN Err(Message("Parameter type differs from impl block type"), <<"rename_to_self">>)
    ELSE SelfIntroductionEdits(d, position, param_range, form.self_param,
                               FindAllRefs(d, position))))))))))

rename_to_self(d, position) == rename_to_self_given(d, position, FindAllRefs(d, position))

\* the single child of a kind of a node, as an option
ChildOfKind(file, n, kind) ==
    Bind({c \in Children(file, n) : c.kind = kind}, LAMBDA cs :
        IF cs = {} THEN None ELSE Some(FirstNode(cs)))

\* target_type_name taking the text of any target type
target_type_name_of_any_type(file, impl_def) ==
    Bind(ImplSelfTy(file, impl_def), LAMBDA ty :
    IF ty = None THEN None
    ELSE Some(SubSeq(file.text, Unwrap(ty).lo + 1, Unwrap(ty).hi)))

\* the name of the impl's target type when it is a path type:
\* p.path()?.segment()?.name_ref()?.text()
target_type_name(file, impl_def) ==
    Bind(ImplSelfTy(file, impl_def), LAMBDA ty :
    IF ty = None \/ Unwrap(ty).kind # "PATH_TYPE" THEN None
    ELSE Bind(ChildOfKind(file, Unwrap(ty), "PATH"), LAMBDA path :
    IF path = None THEN None
    ELSE Bind(ChildOfKind(file, Unwrap(path), "PATH_SEGMENT"), LAMBDA segment :
    IF segment = None THEN None
    ELSE Bind(ChildOfKind(file, Unwrap(segment), "NAME_REF"), LAMBDA name_ref :
    IF name_ref = None THEN None ELSE Some(NameText(file, Unwrap(name_ref)))))))

\* the text written between `name: ` and the type name, from the presence
\* of the `&` and `mut` tokens of the self parameter
OwnershipPrefix(amp_token, mut_token) ==
    IF ~amp_token /\ ~mut_token THEN ""
    ELSE IF amp_token /\ ~mut_token THEN "&"
    ELSE "&mut "

\* support::token(self_param, T![..]).is_some()
HasChildToken(file, n, text) == \E i \in ChildTokens(file, n) : file.tokens[i].text = text

\* text_edit_from_self_param with the self parameter kept and only renamed
text_edit_from_self_param_untyped(file, self_param, new_name) ==
    Bind(FindNodeAtOffset(file, "IMPL", self_param.lo), LAMBDA impl_def :
    IF impl_def = None THEN None
    ELSE Bind(target_type_name(file, Unwrap(impl_def)), LAMBDA type_name :
    IF type_name = None THEN None
    ELSE Some([delete |-> NodeRange(self_param), insert |-> new_name])))

\* the edit of the self parameter, as an option
text_edit_from_self_param(file, self_param, new_name) ==
    Bind(FindNodeAtOffset(file, "IMPL", self_param.lo), LAMBDA impl_def :
    IF impl_def = None THEN None
    ELSE Bind(target_type_name(file, Unwrap(impl_def)), LAMBDA type_name :
    IF type_name = None THEN None
    ELSE Some([delete |-> NodeRange(self_param),
               insert |-> new_name \o ": "
                          \o OwnershipPrefix(HasChildToken(file, self_param, "&"),
                                             HasChildToken(file, self_param, "mut"))
                          \o Unwrap(type_name)])))

\* str::match_indices("self"): the 0-based offsets of the occurrences of
\* the text `self` from offset idx on, in order
RECURSIVE MatchIndices(_, _)
MatchIndices(text, idx) ==
    IF idx + 4 > Len(text) THEN <<>>
    ELSE IF SubSeq(text, idx + 1, idx + 4) = "self"
    THEN <<idx>> \o MatchIndices(text, idx + 4)
    ELSE MatchIndices(text, idx + 1)

\* the edit of one `self` token, as an option
SelfUsageEdit(file, usage, new_name) ==
    Bind(TokenParent(file, usage), LAMBDA parent :
        IF parent.kind = "SELF_PARAM"
        THEN text_edit_from_self_param(file, parent, new_name)
        ELSE Some([delete |-> TokRange(file.tokens[usage]), insert |-> new_name]))

\* the loop of rename_self_to_param over the occurrences from the k-th on:
\* the edits pushed, or failed = TRUE at the first self parameter whose
\* edit cannot be built
RECURSIVE SelfEdits(_, _, _, _, _, _)
SelfEdits(file, file_id, search_range, new_name, indices, k) ==
    IF k > Len(indices) THEN [failed |-> FALSE, edits |-> <<>>]
    ELSE Bind(FindTokenOfKind(file, indices[k], "SELF_KW"), LAMBDA usage :
         IF ~ContainsInclusive(search_range, indices[k]) \/ usage = None
         THEN SelfEdits(file, file_id, search_range, new_name, indices, k + 1)
         ELSE Bind(SelfUsageEdit(file, Unwrap(usage), new_name), LAMBDA edit :
              IF edit = None THEN [failed |-> TRUE, edits |-> <<>>]
              ELSE Bind(SelfEdits(file, file_id, search_range, new_name, indices, k + 1),
                        LAMBDA rest :
                        [failed |-> rest.failed,
                         edits |-> <<SourceFileEdit(file_id, Unwrap(edit).delete,
                                                    Unwrap(edit).insert)>> \o rest.edits])))

\* the range rename_self_to_param reports: the self parameter the token is
\* in, or the token
SelfTokenRange(file, self_token) ==
    Bind(TokenParent(file, self_token), LAMBDA parent :
        IF parent.kind = "SELF_PARAM" THEN NodeRange(parent)
        ELSE TokRange(file.tokens[self_token]))

rename_self_to_param(d, position, self_token, new_name) ==
    Bind(d.files[position.file_id], LAMBDA file :
    Bind(FindNodeAtOffset(file, "FN", position.offset), LAMBDA fn_def :
    IF fn_def = None
    THEN Err(Message("No surrounding method declaration found"), <<"rename_self_to_param">>)
    ELSE Bind(SelfEdits(file, position.file_id, NodeRange(Unwrap(fn_def)), new_name,
                        MatchIndices(file.text, 0), 1), LAMBDA loop :
         IF loop.failed
         THEN Err(Message("No target type found"), <<"rename_self_to_param">>)
         ELSE Ok(SelfTokenRange(file, self_token), loop.edits, <<>>,
                 <<"rename_self_to_param">>))))

\* rename_reference with the two messages of the kind check exchanged
rename_reference_swapped(d, position, new_name, is_lifetime_name) ==
    Bind(FindAllRefs(d, position), LAMBDA found :
    IF found = None
    THEN Err(Message("No references found at position"), <<"rename_reference", "find_all_refs">>)
    ELSE IF Unwrap(found).declaration.kind = "Lifetime" /\ ~is_lifetime_name
    THEN Err(InvalidName(new_name, "not an identifier"),
             <<"rename_reference", "find_all_refs">>)
    ELSE IF Unwrap(found).declaration.kind # "Lifetime" /\ is_lifetime_name
    THEN Err(InvalidName(new_name, "not a lifetime identifier"),
             <<"rename_reference", "find_all_refs">>)
    ELSE Ok(Unwrap(found).range, ReferenceEdits(d, RefsIntoIter(Unwrap(found)), new_name),
            <<>>, <<"rename_reference", "find_all_refs">>))

\* rename_reference without the check of the declaration's kind
rename_reference_unchecked(d, position, new_name, is_lifetime_name) ==
    Bind(FindAllRefs(d, position), LAMBDA found :
    IF found = None
    THEN Err(Message("No references found at position"), <<"rename_reference", "find_all_refs">>)
    ELSE Ok(Unwrap(found).range, ReferenceEdits(d, RefsIntoIter(Unwrap(found)), new_name),
            <<>>, <<"rename_reference", "find_all_refs">>))

\* rename_reference with edits for the usages only
rename_reference_usages_only(d, position, new_name, is_lifetime_name) ==
    Bind(FindAllRefs(d, position), LAMBDA found :
    IF found = None
    THEN Err(Message("No references found at position"), <<"rename_reference", "find_all_refs">>)
    ELSE IF Unwrap(found).declaration.kind = "Lifetime" /\ ~is_lifetime_name
    THEN Err(InvalidName(new_name, "not a lifetime identifier"),
             <<"rename_reference", "find_all_refs">>)
    ELSE IF Unwrap(found).declaration.kind # "Lifetime" /\ is_lifetime_name
    THEN Err(InvalidName(new_name, "not an identifier"),
             <<"rename_reference", "find_all_refs">>)
    ELSE Bind(ReferenceEdits(d, Unwrap(found).references, new_name), LAMBDA edit :
         IF edit = <<>>
         THEN Err(Message("No references found at position"),
                  <<"rename_reference", "find_all_refs">>)
         ELSE Ok(Unwrap(found).range, edit, <<>>, <<"rename_reference", "find_all_refs">>)))

rename_reference(d, position, new_name, is_lifetime_name) ==
    Bind(FindAllRefs(d, position), LAMBDA found :
    IF found = None
    THEN Err(Message("No references found at position"), <<"rename_reference", "find_all_refs">>)
    ELSE IF Unwrap(found).declaration.kind = "Lifetime" /\ ~is_lifetime_name
    THEN Err(InvalidName(new_name, "not a lifetime identifier"),
             <<"rename_reference", "find_all_refs">>)
    ELSE IF Unwrap(found).declaration.kind # "Lifetime" /\ is_lifetime_name
    THEN Err(InvalidName(new_name, "not an identifier"),
             <<"rename_reference", "find_all_refs">>)
    ELSE Bind(ReferenceEdits(d, RefsIntoIter(Unwrap(found)), new_name), LAMBDA edit :
         IF edit = <<>>
         THEN Err(Message("No references found at position"),
                  <<"rename_reference", "find_all_refs">>)
         ELSE Ok(Unwrap(found).range, edit, <<>>, <<"rename_reference", "find_all_refs">>)))

\* RenameDispatch without the branch for a `self` token at the offset
RenameDispatch_no_self(d, position, new_name, is_lifetime_name) ==
    IF is_lifetime_name THEN rename_reference(d, position, new_name, is_lifetime_name)
    ELSE Bind(find_module_at_offset(d, position), LAMBDA module :
         Traced(<<"find_module_at_offset">>,
                IF IsSome(module) THEN rename_mod(d, position, Unwrap(module), new_name)
                ELSE rename_reference(d, position, new_name, is_lifetime_name)))

\* RenameDispatch that looks for a module and a `self` token before it
\* looks at the kind of the new name
RenameDispatch_lifetime_last(d, position, new_name, is_lifetime_name) ==
    Bind(find_module_at_offset(d, position), LAMBDA module :
         Traced(<<"find_module_at_offset">>,
                IF IsSome(module) THEN rename_mod(d, position, Unwrap(module), new_name)
                ELSE Bind(FindTokenOfKind(d.files[position.file_id], position.offset, "SELF_KW"),
                          LAMBDA self_token :
                          IF IsSome(self_token)
                          THEN rename_self_to_param(d, position, Unwrap(self_token), new_name)
                          ELSE rename_reference(d, position, new_name, is_lifetime_name))))

\* the strategies of rename_with_semantics for a lexically valid new name
\* other than `self`
RenameDispatch(d, position, new_name, is_lifetime_name) ==
    IF is_lifetime_name THEN rename_reference(d, position, new_name, is_lifetime_name)
    ELSE Bind(find_module_at_offset(d, position), LAMBDA module :
         Traced(<<"find_module_at_offset">>,
                IF IsSome(module) THEN rename_mod(d, position, Unwrap(module), new_name)
                ELSE Bind(FindTokenOfKind(d.files[position.file_id], position.offset, "SELF_KW"),
                          LAMBDA self_token :
                          IF IsSome(self_token)
                          THEN rename_self_to_param(d, position, Unwrap(self_token), new_name)
                          ELSE rename_reference(d, position, new_name, is_lifetime_name))))

\* the match of rename_with_semantics on the lexed new name: the strategy
\* family ("lifetime", "name", "self") or the detail of the error
NameCheck(new_name, lexed) ==
    IF lexed = None THEN [ok |-> FALSE, detail |-> "not an identifier"]
    ELSE IF Unwrap(lexed).kind = "IDENT" THEN [ok |-> TRUE, detail |-> "name"]
    ELSE IF Unwrap(lexed).kind = "UNDERSCORE" THEN [ok |-> TRUE, detail |-> "name"]
    ELSE IF Unwrap(lexed).kind = "SELF_KW" THEN [ok |-> TRUE, detail |-> "self"]
    ELSE IF Unwrap(lexed).kind = "LIFETIME_IDENT" /\ new_name # "'static" /\ new_name # "'_"
    THEN [ok |-> TRUE, detail |-> "lifetime"]
    ELSE IF Unwrap(lexed).kind = "LIFETIME_IDENT"
    THEN [ok |-> FALSE, detail |-> "Cannot rename lifetime to " \o new_name]
    ELSE IF IsSome(Unwrap(lexed).error)
    THEN [ok |-> FALSE, detail |-> Unwrap(Unwrap(lexed).error)]
    ELSE [ok |-> FALSE, detail |-> "not an identifier"]

\* rename_with_semantics without the validation of the new name
rename_with_semantics_unvalidated(d, position, new_name) ==
    IF new_name = "self" THEN rename_to_self(d, position)
    ELSE RenameDispatch(d, position, new_name, FALSE)

\* rename_with_semantics with `self` handled like an identifier
rename_with_semantics_self_as_ident(d, position, new_name) ==
    Bind(NameCheck(new_name, LexSingleSyntaxKind(new_name)), LAMBDA check :
        IF ~check.ok THEN Err(InvalidName(new_name, check.detail), <<>>)
        ELSE RenameDispatch(d, position, new_name, check.detail = "lifetime"))

rename_with_semantics(d, position, new_name) ==
    Bind(NameCheck(new_name, LexSingleSyntaxKind(new_name)), LAMBDA check :
        IF ~check.ok THEN Err(InvalidName(new_name, check.detail), <<>>)
        ELSE IF check.detail = "self" THEN rename_to_self(d, position)
        ELSE RenameDispatch(d, position, new_name, check.detail = "lifetime"))

rename(d, position, new_name) == rename_with_semantics(d, position, new_name)

\* prepare_rename without the branch for a `self` token at the offset
prepare_rename_no_self(d, position) ==
    Bind(find_module_at_offset(d, position), LAMBDA module :
    Bind(IF IsSome(module)
         THEN Traced(<<"find_module_at_offset">>,
                     rename_mod(d, position, Unwrap(module), "dummy"))
         ELSE Bind(FindAllRefs(d, position), LAMBDA found :
              IF found = None
              THEN Err(Message("No references found at position"),
                       <<"find_module_at_offset", "find_all_refs">>)
              ELSE Ok(Unwrap(found).range, <<>>, <<>>,
                      <<"find_module_at_offset", "find_all_refs">>)),
         LAMBDA res : IF res.ok THEN Ok(res.range, <<>>, <<>>, res.trace) ELSE res))

prepare_rename(d, position) ==
    Bind(find_module_at_offset(d, position), LAMBDA module :
    Bind(FindTokenOfKind(d.files[position.file_id], position.offset, "SELF_KW"), LAMBDA self_token :
    Bind(IF IsSome(module)
         THEN Traced(<<"find_module_at_offset">>,
                     rename_mod(d, position, Unwrap(module), "dummy"))
         ELSE IF IsSome(self_token)
         THEN Traced(<<"find_module_at_offset">>,
                     rename_self_to_param(d, position, Unwrap(self_token), "dummy"))
         ELSE Bind(FindAllRefs(d, position), LAMBDA found :
              IF found = None
              THEN Err(Message("No references found at position"),
                       <<"find_module_at_offset", "find_all_refs">>)
              ELSE Ok(Unwrap(found).range, <<>>, <<>>,
                      <<"find_module_at_offset", "find_all_refs">>)),
         LAMBDA res : IF res.ok THEN Ok(res.range, <<>>, <<>>, res.trace) ELSE res)))

(***************************************************************************)
(* The semantic model as goto_definition consults it.                      *)
(***************************************************************************)
\* NavigationTarget { file_id, full_range, focus_range, name, kind }
NavigationTarget(file_id, full_range, focus_range, name, kind) ==
    [file_id |-> file_id, full_range |-> full_range, focus_range |-> focus_range,
     name |-> name, kind |-> kind]

\* NavigationTarget::focus_or_full_range
FocusOrFullRange(nav) == IF IsSome(nav.focus_range) THEN Unwrap(nav.focus_range) ELSE nav.full_range

\* the parent of a node
ParentNode(file, n) ==
    CHOOSE m \in file.nodes : m.depth = n.depth - 1 /\ ContainsRange(NodeRange(m), NodeRange(n))

\* the node a name declares: the parent of the NAME or LIFETIME at the range
DeclaringNode(file, range) ==
    ParentNode(file, CHOOSE n \in file.nodes :
                        n.kind \in {"NAME", "LIFETIME"} /\ NodeRange(n) = range)

\* Definition::try_to_nav: the declaration of the entity as a target; an
\* entity without a name of its own is shown by its whole file
TryToNav(d, ent) ==
    IF ent \in d.hidden THEN None
    ELSE Bind(DeclarationOf(d, ent), LAMBDA decl :
         IF RefsInFiles(d, ent, TRUE, 0) = <<>>
         THEN Some(NavigationTarget(decl.file_id, decl.range, None, "", "Definition"))
         ELSE Some(NavigationTarget(decl.file_id,
                                    NodeRange(DeclaringNode(d.files[decl.file_id], decl.range)),
                                    Some(decl.range),
                                    SubSeq(d.files[decl.file_id].text,
                                           decl.range[1] + 1, decl.range[2]),
                                    "Definition")))

\* NameClass::classify and classify_lifetime with referenced_or_defined:
\* the entity a name declares, or the field a shorthand pattern binding
\* stands for; None for a name the semantic model has nothing on
NameReferencedOrDefined(tok) ==
    IF {r \in tok.refs : r.decl} = {} THEN None
    ELSE IF \E r \in tok.refs : r.kind = "FieldShorthandForField"
    THEN Some((CHOOSE r \in tok.refs : r.kind = "FieldShorthandForField").ent)
    ELSE Some((CHOOSE r \in tok.refs : r.decl).ent)

\* NameRefClass::classify and classify_lifetime with referenced: the entity
\* a usage resolves to
NameRefReferenced(tok) ==
    IF {r \in tok.refs : ~r.decl} = {} THEN None
    ELSE Some(EntityOf({r \in tok.refs : ~r.decl}))

ItemKinds == {"FN", "STRUCT", "MODULE"}

\* the names of the items of a file from token i on, as targets
RECURSIVE SymbolsOfFile(_, _, _, _)
SymbolsOfFile(file, file_id, name, i) ==
    IF i > Len(file.tokens) THEN <<>>
    ELSE (IF /\ file.tokens[i].text = name
             /\ TokenParent(file, i).kind = "NAME"
             /\ ParentNode(file, TokenParent(file, i)).kind \in ItemKinds
          THEN <<NavigationTarget(file_id, NodeRange(ParentNode(file, TokenParent(file, i))),
                                  Some(TokRange(file.tokens[i])), name, "Symbol")>>
          ELSE <<>>)
         \o SymbolsOfFile(file, file_id, name, i + 1)

\* symbol_index::index_resolve with to_nav: every symbol of that exact name
RECURSIVE IndexResolve(_, _, _)
IndexResolve(d, name, file_id) ==
    IF file_id \notin DOMAIN d.files THEN <<>>
    ELSE SymbolsOfFile(d.files[file_id], file_id, name, 1) \o IndexResolve(d, name, file_id + 1)

(***************************************************************************)
(* crates/ide/src/goto_definition.rs                                       *)
(* The result of goto_definition is None (some = FALSE) or a range with    *)
(* targets; `reference` tells the ReferenceResult it was made from,        *)
(* `token` the range of the token pick_best chose and `trace` the          *)
(* collaborators consulted.                                                *)
(***************************************************************************)
GotoNone(trace) ==
    [some |-> FALSE, range |-> <<0, 0>>, targets |-> <<>>, reference |-> "none",
     token |-> None, trace |-> trace]
GotoSome(range, targets, reference, trace) ==
    [some |-> TRUE, range |-> range, targets |-> targets, reference |-> reference,
     token |-> None, trace |-> trace]

\* pick_best::priority
priority(kind) ==
    IF kind \in {"IDENT", "INT_NUMBER", "LIFETIME_IDENT", "SELF_KW"} THEN 2
    ELSE IF kind \in {"WHITESPACE", "COMMENT"} THEN 0
    ELSE 1

\* Iterator::max_by_key over the tokens from the k-th on: the last of the
\* tokens of the greatest key
RECURSIVE MaxByKey(_, _, _, _)
MaxByKey(file, tokens, k, best) ==
    IF k > Len(tokens) THEN best
    ELSE MaxByKey(file, tokens, k + 1,
                  IF best = None
                     \/ priority(file.tokens[tokens[k]].kind)
                            >= priority(file.tokens[Unwrap(best)].kind)
                  THEN Some(tokens[k]) ELSE best)

\* pick_best that takes the first of the tokens, whatever their kinds
pick_best_flat(file, tokens) == IF tokens = <<>> THEN None ELSE Some(tokens[1])

pick_best(file, tokens) == MaxByKey(file, tokens, 1, None)

self_to_nav_target(file, self_param, file_id) ==
    Bind({i \in ChildTokens(file, self_param) : file.tokens[i].kind = "SELF_KW"}, LAMBDA ts :
        IF ts = {} THEN None
        ELSE Some(NavigationTarget(file_id, NodeRange(self_param),
                                   Some(TokRange(file.tokens[CHOOSE i \in ts : TRUE])),
                                   "self", "SelfParam")))

\* ReferenceResult::Exact and ReferenceResult::Approximate
Exact(nav) == [variant |-> "Exact", navs |-> <<nav>>, trace |-> <<"classify">>]
Approximate(navs, trace) == [variant |-> "Approximate", navs |-> navs, trace |-> trace]
\* ReferenceResult::to_vec
to_vec(result) == result.navs

\* reference_definition that asks the symbol index whenever there is no target
reference_definition_index_always(d, tok) ==
    Bind(NameRefReferenced(tok), LAMBDA def :
        IF IsSome(def) /\ IsSome(TryToNav(d, Unwrap(def)))
        THEN Exact(Unwrap(TryToNav(d, Unwrap(def))))
        ELSE Approximate(IndexResolve(d, tok.text, 0), <<"classify", "index_resolve">>))

reference_definition(d, tok) ==
    Bind(NameRefReferenced(tok), LAMBDA def :
        IF IsSome(def)
        THEN Bind(TryToNav(d, Unwrap(def)), LAMBDA nav :
             IF IsSome(nav) THEN Exact(Unwrap(nav)) ELSE Approximate(<<>>, <<"classify">>))
        ELSE Approximate(IndexResolve(d, tok.text, 0), <<"classify", "index_resolve">>))

\* the targets of a reference, with the range of the token
ReferenceTargets(d, range, tok) ==
    Bind(reference_definition(d, tok), LAMBDA result :
        GotoSome(range, to_vec(result), result.variant, <<"pick_best">> \o result.trace))

\* the arm of a name or of a lifetime that declares
DefinitionTargets(d, range, def) ==
    Bind(TryToNav(d, def), LAMBDA nav :
        IF nav = None THEN GotoNone(<<"pick_best", "classify">>)
        ELSE GotoSome(range, <<Unwrap(nav)>>, "none", <<"pick_best", "classify">>))

\* the arm of a self parameter, given as an option
SelfParamTargets(file, range, self_param, file_id) ==
    IF self_param = None THEN GotoNone(<<"pick_best">>)
    ELSE Bind(self_to_nav_target(file, Unwrap(self_param), file_id), LAMBDA nav :
         IF nav = None THEN GotoNone(<<"pick_best">>)
         ELSE GotoSome(range, <<Unwrap(nav)>>, "none", <<"pick_best">>))

\* the self parameter of the innermost function around a node
SelfParamOfEnclosingFn(file, n) ==
    Bind({f \in NodeAncestors(file, n) : f.kind = "FN"}, LAMBDA fns :
        IF fns = {} THEN None
        ELSE Bind(ParamListOf(file, CHOOSE f \in fns : \A g \in fns : g.depth <= f.depth),
                  LAMBDA list :
                  IF list = None THEN None ELSE SelfParamOfList(file, Unwrap(list))))

\* the arm of a path segment without the look at the qualifier
PathSegmentTargets_any_path(file, range, segment, file_id) ==
    IF ~HasChildToken(file, segment, "self") THEN GotoNone(<<"pick_best">>)
    ELSE SelfParamTargets(file, range, SelfParamOfEnclosingFn(file, segment), file_id)

\* the arm of a path segment
PathSegmentTargets(file, range, segment, file_id) ==
    IF ~HasChildToken(file, segment, "self") THEN GotoNone(<<"pick_best">>)
    ELSE Bind(ParentNode(file, segment), LAMBDA path :
         IF /\ IsSome(ChildOfKind(file, path, "PATH"))
            /\ ParentNode(file, path).kind # "PATH_EXPR"
         THEN GotoNone(<<"pick_best">>)
         ELSE SelfParamTargets(file, range, SelfParamOfEnclosingFn(file, segment), file_id))

\* the match of goto_definition with a name in the arm of the references
GotoMatch_name_as_reference(d, file, file_id, tok, parent) ==
    IF parent.kind \in {"NAME_REF", "NAME"} THEN ReferenceTargets(d, TokRange(tok), tok)
    ELSE IF parent.kind = "SELF_PARAM"
    THEN SelfParamTargets(file, TokRange(tok), Some(parent), file_id)
    ELSE IF parent.kind = "PATH_SEGMENT"
    THEN PathSegmentTargets(file, TokRange(tok), parent, file_id)
    ELSE IF parent.kind = "LIFETIME"
    THEN Bind(NameReferencedOrDefined(tok), LAMBDA def :
         IF IsSome(def) THEN DefinitionTargets(d, TokRange(tok), Unwrap(def))
         ELSE ReferenceTargets(d, TokRange(tok), tok))
    ELSE GotoNone(<<"pick_best">>)

\* the match of goto_definition on the parent of the token
GotoMatch(d, file, file_id, tok, parent) ==
    IF parent.kind = "NAME_REF" THEN ReferenceTargets(d, TokRange(tok), tok)
    ELSE IF parent.kind = "NAME"
    THEN Bind(NameReferencedOrDefined(tok), LAMBDA def :
         IF def = None THEN GotoNone(<<"pick_best", "classify">>)
         ELSE DefinitionTargets(d, TokRange(tok), Unwrap(def)))
    ELSE IF parent.kind = "SELF_PARAM"
    THEN SelfParamTargets(file, TokRange(tok), Some(parent), file_id)
    ELSE IF parent.kind = "PATH_SEGMENT"
    THEN PathSegmentTargets(file, TokRange(tok), parent, file_id)
    ELSE IF parent.kind = "LIFETIME"
    THEN Bind(NameReferencedOrDefined(tok), LAMBDA def :
         IF IsSome(def) THEN DefinitionTargets(d, TokRange(tok), Unwrap(def))
         ELSE ReferenceTargets(d, TokRange(tok), tok))
    ELSE GotoNone(<<"pick_best">>)

goto_definition(d, position) ==
    Bind(d.files[position.file_id], LAMBDA file :
    Bind(pick_best(file, TokenAtOffset(file, position.offset)), LAMBDA original_token :
        IF original_token = None THEN GotoNone(<<"pick_best">>)
        ELSE [GotoMatch(d, file, position.file_id, file.tokens[Unwrap(original_token)],
                        TokenParent(file, Unwrap(original_token)))
                EXCEPT !.token = Some(TokRange(file.tokens[Unwrap(original_token)]))]))

(***************************************************************************)
(* The text a change produces, as the tests' `check` computes it: every    *)
(* indel goes into one builder, which applies them from the last range to  *)
(* the first.                                                              *)
(***************************************************************************)
\* Indel::apply: the range of the text is replaced by the inserted text
Splice(text, range, insert) ==
    SubSeq(text, 1, range[1]) \o insert \o SubSeq(text, range[2] + 1, Len(text))

\* the index of the edit to apply next: the one that starts last
LastEdit(edits, todo) ==
    CHOOSE k \in todo : \A j \in todo :
        \/ edits[j].delete[1] < edits[k].delete[1]
        \/ edits[j].delete[1] = edits[k].delete[1] /\ j <= k

RECURSIVE ApplyEditsFrom(_, _, _)
ApplyEditsFrom(text, edits, todo) ==
    IF todo = {} THEN text
    ELSE Bind(LastEdit(edits, todo), LAMBDA k :
         ApplyEditsFrom(Splice(text, edits[k].delete, edits[k].insert), edits, todo \ {k}))

ApplyEdits(text, edits) == ApplyEditsFrom(text, edits, DOMAIN edits)

(***************************************************************************)
(* The requests against one snapshot.                                      *)
(***************************************************************************)
\* the new names a rename is asked for
NewNames == {"foo", "_", "self", "'foo", "'static", "'_", "invalid!", "multiple tokens",
             "let", "", "\"abc"}

\* the positions of a snapshot: every offset of every file, end included
Positions(d) ==
    UNION {{Position(f, o) : o \in 0..Len(d.files[f].text)} : f \in DOMAIN d.files}

\* the snapshot the requests are served on; `db` names its fixture
Snap == Snapshots[db]

NoRequest == [op |-> "none", position |-> Position(0, 0), new_name |-> ""]
NoResponse == Err(<<>>, <<>>)

Init ==
    /\ db \in Fixtures
    /\ request = NoRequest
    /\ response = NoResponse

\* a request is served while no other value is waiting for the caller
Rename(position, new_name) ==
    /\ request = NoRequest
    /\ request' = [op |-> "rename", position |-> position, new_name |-> new_name]
    /\ response' = rename(Snap, position, new_name)
    /\ UNCHANGED db

PrepareRename(position) ==
    /\ request = NoRequest
    /\ request' = [op |-> "prepare_rename", position |-> position, new_name |-> ""]
    /\ response' = prepare_rename(Snap, position)
    /\ UNCHANGED db

GotoDefinition(position) ==
    /\ request = NoRequest
    /\ request' = [op |-> "goto_definition", position |-> position, new_name |-> ""]
    /\ response' = goto_definition(Snap, position)
    /\ UNCHANGED db

\* the caller takes the returned value; nothing of the request is kept
Return ==
    /\ request # NoRequest
    /\ request' = NoRequest
    /\ response' = NoResponse
    /\ UNCHANGED db

Next ==
    \/ \E position \in Positions(Snap), new_name \in NewNames : Rename(position, new_name)
    \/ \E position \in Positions(Snap) : PrepareRename(position)
    \/ \E position \in Positions(Snap) : GotoDefinition(position)
    \/ Return

Spec == Init /\ [][Next]_vars

(***************************************************************************)
(* The self-introduction over the results a reference search can give.     *)
(* find_all_refs lies outside rename.rs; here its result is any            *)
(* declaration with up to MaxRefs usages among the names of the file.      *)
(***************************************************************************)
IntroFixtures ==
    { Fixture("method", impl, recv, lead, 1, "plain") :
        impl \in {"Foo", "none"}, recv \in {"Foo", "&Foo"}, lead \in BOOLEAN }

\* the names of file 0 as references
NameReferences(d) ==
    { Reference(0, TokRange(d.files[0].tokens[i]), "Other") :
        i \in {j \in DOMAIN d.files[0].tokens : d.files[0].tokens[j].kind = "IDENT"} }

\* the sequences of up to n distinct references in the order of the text
OrderedRefs(S, n) ==
    UNION { {s \in [1..k -> S] : \A i \in 1..(k - 1) : s[i].range[1] < s[i + 1].range[1]} :
            k \in 0..n }

\* a declaration and usages that are other occurrences
SearchResults(d) ==
    {None} \cup
    { Some([range |-> p[1].range, declaration |-> p[1], references |-> p[2]]) :
        p \in {q \in NameReferences(d) \X OrderedRefs(NameReferences(d), MaxRefs) :
                    \A i \in DOMAIN q[2] : q[2][i] # q[1]} }

InitIntro ==
    /\ db \in IntroFixtures
    /\ request = NoRequest
    /\ response = NoResponse

RenameToSelfGiven(position, found) ==
    /\ request = NoRequest
    /\ request' = [op |-> "rename_to_self", position |-> position, new_name |-> "self",
                   found |-> found]
    /\ response' = rename_to_self_given(Snap, position, found)
    /\ UNCHANGED db

NextIntro ==
    \/ \E position \in Positions(Snap), found \in SearchResults(Snap) :
            RenameToSelfGiven(position, found)
    \/ Return

SpecIntro == InitIntro /\ [][NextIntro]_vars

(***************************************************************************)
(* A rename, the change applied by the client, and a second rename on the  *)
(* snapshot of the changed text.  The changed text is analysed again: the  *)
(* new snapshot is the one whose files have that text.                     *)
(***************************************************************************)
RoundTripNames == {"i", "j", "foo", "self"}

RoundTripFixtures ==
    FieldFixtures
    \cup { Fixture("method", impl, recv, FALSE, n, "plain") :
            impl \in {"Foo", "&Foo"}, recv \in ParamTypes, n \in 1..MaxUsages }

\* the text of every file of every snapshot
FileTexts == [fx \in Fixtures |-> [f \in DOMAIN Snapshots[fx].files |-> Snapshots[fx].files[f].text]]

\* the edits of a change that go to one file, in the order of the change
EditsOfFile(edits, f) == SelectSeq(edits, LAMBDA e : e.file_id = f)

\* the texts of the files once the text edits of a change are applied
ChangedTexts(d, edits) ==
    [f \in DOMAIN d.files |-> ApplyEdits(d.files[f].text, EditsOfFile(edits, f))]

\* the client applies a successful change that moves no file, and the
\* changed files are analysed
Apply ==
    /\ request.op = "rename"
    /\ response.ok /\ response.file_system_edits = <<>>
    /\ \E fx \in Fixtures :
        /\ FileTexts[fx] = ChangedTexts(Snap, response.source_file_edits)
        /\ db' = fx
    /\ request' = [op |-> "applied", position |-> request.position,
                   new_name |-> request.new_name, from |-> db]
    /\ response' = NoResponse

\* the rename that follows an applied change
RenameAgain(position, new_name) ==
    /\ request.op = "applied"
    /\ request' = [op |-> "rename_again", position |-> position, new_name |-> new_name,
                   from |-> request.from, first_name |-> request.new_name]
    /\ response' = rename(Snap, position, new_name)
    /\ UNCHANGED db

InitRoundTrip ==
    /\ db \in RoundTripFixtures
    /\ request = NoRequest
    /\ response = NoResponse

NextRoundTrip ==
    \/ \E position \in Positions(Snap), new_name \in RoundTripNames : Rename(position, new_name)
    \/ Apply
    \/ \E position \in Positions(Snap), new_name \in RoundTripNames :
            RenameAgain(position, new_name)

SpecRoundTrip == InitRoundTrip /\ [][NextRoundTrip]_vars

(***************************************************************************)
(* Several requests in flight on one snapshot.  Every caller holds the     *)
(* snapshot by a shared reference (`db: &RootDatabase`); a request is      *)
(* called, served and returned in steps of its own, so that the requests   *)
(* of the callers interleave in every order.  Here `request` and           *)
(* `response` hold one value for every caller.                             *)
(***************************************************************************)
Callers == {"a", "b"}
SharedFixtures ==
    { Fixture("method", "Foo", "&self", FALSE, 1, "plain"),
      Fixture("method", "Foo", "&Foo", FALSE, 1, "plain"),
      Fixture("generic", "lifetime", "none", FALSE, 1, "plain") }
SharedNames == {"foo", "self"}

\* the entry points of the two files, by the name of the request
Serve(d, req) ==
    CASE req.op = "rename" -> rename(d, req.position, req.new_name)
      [] req.op = "prepare_rename" -> prepare_rename(d, req.position)
      [] req.op = "goto_definition" -> goto_definition(d, req.position)

\* a request that wrote the edits of its change into the files it was
\* served on: the snapshot afterwards is the one of the changed texts
SnapshotAfter_edited(fx, req, res) ==
    IF req.op = "rename" /\ res.ok /\ res.file_system_edits = <<>>
       /\ \E gx \in Fixtures : FileTexts[gx] = ChangedTexts(Snapshots[fx], res.source_file_edits)
    THEN CHOOSE gx \in Fixtures :
            FileTexts[gx] = ChangedTexts(Snapshots[fx], res.source_file_edits)
    ELSE fx

\* the snapshot after a request was served on it: the requests take the
\* database by shared reference and return a value
SnapshotAfter(fx, req, res) == fx

InitShared ==
    /\ db \in SharedFixtures
    /\ request = [c \in Callers |-> NoRequest]
    /\ response = [c \in Callers |-> NoResponse]

Call(c, req) ==
    /\ request[c] = NoRequest
    /\ request' = [request EXCEPT ![c] = req]
    /\ UNCHANGED <<db, response>>

Answer(c) ==
    /\ request[c] # NoRequest
    /\ response[c] = NoResponse
    /\ response' = [response EXCEPT ![c] = Serve(Snap, request[c])]
    /\ db' = SnapshotAfter(db, request[c], Serve(Snap, request[c]))
    /\ UNCHANGED request

Take(c) ==
    /\ request[c] # NoRequest
    /\ response[c] # NoResponse
    /\ request' = [request EXCEPT ![c] = NoRequest]
    /\ response' = [response EXCEPT ![c] = NoResponse]
    /\ UNCHANGED db

NextShared ==
    \/ \E c \in Callers, position \in Positions(Snap), new_name \in SharedNames :
          Call(c, [op |-> "rename", position |-> position, new_name |-> new_name])
    \/ \E c \in Callers, position \in Positions(Snap) :
          Call(c, [op |-> "prepare_rename", position |-> position, new_name |-> ""])
    \/ \E c \in Callers, position \in Positions(Snap) :
          Call(c, [op |-> "goto_definition", position |-> position, new_name |-> ""])
    \/ \E c \in Callers : Answer(c)
    \/ \E c \in Callers : Take(c)

SpecShared == InitShared /\ [][NextShared]_vars

(***************************************************************************)
(* Properties.                                                             *)
(***************************************************************************)
IsRename == request.op = "rename"
CursorFile == Snap.files[request.position.file_id]
CursorTokens == TokenAtOffset(CursorFile, request.position.offset)
InTrace(name) == \E k \in 1..Len(response.trace) : response.trace[k] = name
\* the result of the reference search at the cursor
Found == FindAllRefs(Snap, request.position)

\* the new name is a single identifier, `_`, `self`, or a lifetime other
\* than 'static and '_
AcceptedName(n) ==
    LET l == LexSingleSyntaxKind(n)
    IN /\ IsSome(l)
       /\ \/ Unwrap(l).kind \in {"IDENT", "UNDERSCORE", "SELF_KW"}
          \/ Unwrap(l).kind = "LIFETIME_IDENT" /\ n \notin {"'static", "'_"}

LifetimeShaped(n) == AcceptedName(n) /\ Unwrap(LexSingleSyntaxKind(n)).kind = "LIFETIME_IDENT"
PlainName(n) == AcceptedName(n) /\ Unwrap(LexSingleSyntaxKind(n)).kind \in {"IDENT", "UNDERSCORE"}

\* C1: a rename to a name that is not one identifier, `_`, `self` or a
\* lifetime other than 'static and '_ fails at every position with a
\* message that starts "Invalid name <new_name>:", and neither the reference
\* search nor the module lookup nor any strategy is consulted.
C1_InvalidNameRejectedFirst ==
    (IsRename /\ ~AcceptedName(request.new_name)) =>
        /\ ~response.ok
        /\ Len(response.err) = 3
        /\ response.err[1] = "Invalid name "
        /\ response.err[2] = request.new_name
        /\ SubSeq(response.err[3], 1, 1) = ":"
        /\ response.trace = <<>>

C1_Witness ==
    /\ IsRename /\ request.new_name = "multiple tokens"
    /\ IsSome(Found)
    /\ response.err = InvalidName("multiple tokens", "not an identifier")

\* C2 as stated: in the generic rename with a successful reference search,
\* a lifetime-shaped new name on a non-lifetime declaration fails with "not
\* a lifetime identifier", and a non-lifetime new name on a lifetime
\* declaration fails with "not an identifier".
C2_Original ==
    (IsRename /\ InTrace("rename_reference") /\ IsSome(Found)) =>
        /\ (LifetimeShaped(request.new_name) /\ Unwrap(Found).declaration.kind # "Lifetime")
            => response.err = InvalidName(request.new_name, "not a lifetime identifier")
        /\ (PlainName(request.new_name) /\ Unwrap(Found).declaration.kind = "Lifetime")
            => response.err = InvalidName(request.new_name, "not an identifier")

\* C2 as amended: in the generic rename with a successful reference search,
\* a lifetime-shaped new name on a non-lifetime declaration fails with "not
\* an identifier", and a non-lifetime new name on a lifetime declaration
\* fails with "not a lifetime identifier".
C2_KindMismatchFails ==
    (IsRename /\ InTrace("rename_reference") /\ IsSome(Found)) =>
        /\ (LifetimeShaped(request.new_name) /\ Unwrap(Found).declaration.kind # "Lifetime")
            => (~response.ok /\ response.err = InvalidName(request.new_name, "not an identifier"))
        /\ (PlainName(request.new_name) /\ Unwrap(Found).declaration.kind = "Lifetime")
            => (~response.ok
                /\ response.err = InvalidName(request.new_name, "not a lifetime identifier"))

C2_Witness ==
    /\ IsRename /\ InTrace("rename_reference") /\ IsSome(Found)
    /\ request.new_name = "_" /\ Unwrap(Found).declaration.kind = "Lifetime"
    /\ response.err = InvalidName("_", "not a lifetime identifier")

\* C3: renaming a non-lifetime declaration to 'foo fails with exactly
\* "Invalid name 'foo: not an identifier" and renaming a lifetime
\* declaration to foo fails with exactly "Invalid name foo: not a lifetime
\* identifier" (the names between grave accents); no edit is returned.
C3_ExactKindMismatchMessages ==
    (IsRename /\ IsSome(Found)) =>
        /\ (request.new_name = "'foo" /\ Unwrap(Found).declaration.kind # "Lifetime")
            => /\ ~response.ok
               /\ response.err = <<"Invalid name ", "'foo", ": not an identifier">>
               /\ response.source_file_edits = <<>> /\ response.file_system_edits = <<>>
        /\ (request.new_name = "foo" /\ Unwrap(Found).declaration.kind = "Lifetime")
            => /\ ~response.ok
               /\ response.err = <<"Invalid name ", "foo", ": not a lifetime identifier">>
               /\ response.source_file_edits = <<>> /\ response.file_system_edits = <<>>

C3_Witness ==
    /\ IsRename /\ request.new_name = "'foo"
    /\ Snap.fixture.family = "generic" /\ Snap.fixture.impl = "local" /\ Snap.fixture.usages = 1
    /\ IsSome(Found)
    /\ response.err = <<"Invalid name ", "'foo", ": not an identifier">>

\* the strategies a response went through
Strategies == {"rename_mod", "rename_to_self", "rename_self_to_param", "rename_reference"}
Entered == {s \in Strategies : InTrace(s)}

\* an identifier token at the cursor that is a module name or a reference
\* to a module
CursorOnModule ==
    \E k \in 1..Len(CursorTokens) :
        /\ CursorFile.tokens[CursorTokens[k]].kind = "IDENT"
        /\ \E r \in CursorFile.tokens[CursorTokens[k]].refs : r.ent \in DOMAIN Snap.modules

\* a `self` keyword token at the cursor
CursorOnSelf ==
    \E k \in 1..Len(CursorTokens) : CursorFile.tokens[CursorTokens[k]].kind = "SELF_KW"

\* a lifetime token at the cursor
CursorOnLifetime ==
    \E k \in 1..Len(CursorTokens) : CursorFile.tokens[CursorTokens[k]].kind = "LIFETIME_IDENT"

\* C4: a rename to `self` runs the self-introduction whatever is at the
\* cursor; the module rename, the self-removal and the generic rename are
\* not entered, the module lookup is not consulted and no file move is
\* produced.
C4_SelfAlwaysIntroduces ==
    (IsRename /\ request.new_name = "self") =>
        /\ Entered = {"rename_to_self"}
        /\ response.trace[1] = "rename_to_self"
        /\ ~InTrace("find_module_at_offset")
        /\ response.file_system_edits = <<>>

C4_Witness ==
    /\ IsRename /\ request.new_name = "self" /\ CursorOnModule
    /\ Snap.fixture.impl = "mod_rs"
    /\ Entered = {"rename_to_self"}

\* C5: a rename to an identifier or `_` enters exactly one strategy: the
\* module rename when the cursor is on a module name or module reference,
\* otherwise the self-removal when a `self` token is at the cursor,
\* otherwise the generic rename.
C5_StrategyPriority ==
    (IsRename /\ PlainName(request.new_name)) =>
        Entered = IF CursorOnModule THEN {"rename_mod"}
                  ELSE IF CursorOnSelf THEN {"rename_self_to_param"}
                  ELSE {"rename_reference"}

C5_Witness ==
    /\ IsRename /\ request.new_name = "_"
    /\ ~CursorOnModule /\ CursorOnSelf /\ Snap.fixture.decor = "tail"
    /\ Entered = {"rename_self_to_param"} /\ response.ok

\* the module of the module snapshots
TheModule == Snap.modules["foo"]
ModuleRenameEntered == IsRename /\ InTrace("rename_mod")

\* C6: a successful module rename returns exactly one file move when the
\* module's definition source is a file and none when the module is inline;
\* the move's source and anchor are the module's file and its path is
\* ../<new_name>/mod.rs for a mod.rs-style file, <new_name>.rs otherwise.
C6_ModuleFileMove ==
    (ModuleRenameEntered /\ response.ok) =>
        IF TheModule.definition_source.kind = "SourceFile"
        THEN /\ Len(response.file_system_edits) = 1
             /\ response.file_system_edits[1].src = TheModule.definition_source.file_id
             /\ response.file_system_edits[1].anchor = TheModule.definition_source.file_id
             /\ response.file_system_edits[1].path =
                    IF TheModule.is_mod_rs THEN "../" \o request.new_name \o "/mod.rs"
                    ELSE request.new_name \o ".rs"
        ELSE response.file_system_edits = <<>>

C6_Witness ==
    /\ ModuleRenameEntered /\ response.ok
    /\ db.impl = "mod_rs" /\ request.new_name = "_"
    /\ response.file_system_edits = <<[src |-> 1, anchor |-> 1, path |-> "../_/mod.rs"]>>

\* the edits the claim C7 expects of a module rename
ExpectedDeclarationEdit ==
    IF IsSome(TheModule.declaration_source)
    THEN <<[file_id |-> Unwrap(TheModule.declaration_source).file_id,
            delete |-> Unwrap(TheModule.declaration_source).name,
            insert |-> request.new_name]>>
    ELSE <<>>
ExpectedUsageEdits ==
    [k \in 1..Len(Unwrap(Found).references) |->
        [file_id |-> Unwrap(Found).references[k].file_id,
         delete |-> Unwrap(Found).references[k].range,
         insert |-> request.new_name]]

\* C7: a successful module rename returns the edit of the name at the
\* declaration site (when there is one) followed by one edit per usage the
\* reference search returned, in that order; when the reference search
\* finds nothing the rename fails with "No references found at position".
C7_ModuleTextEdits ==
    ModuleRenameEntered =>
        IF Found = None
        THEN /\ ~response.ok
             /\ response.err = <<"No references found at position">>
             /\ response.source_file_edits = <<>> /\ response.file_system_edits = <<>>
        ELSE /\ response.ok
             /\ response.source_file_edits = ExpectedDeclarationEdit \o ExpectedUsageEdits

C7_Witness ==
    /\ ModuleRenameEntered /\ response.ok
    /\ IsSome(TheModule.declaration_source)
    /\ Len(response.source_file_edits) = 3
    /\ response.source_file_edits[1].delete = Unwrap(TheModule.declaration_source).name
    /\ response.source_file_edits[2].delete[1] < response.source_file_edits[3].delete[1]

\* the function the cursor is in, and the `self` keyword tokens in it
CursorFn == Unwrap(FindNodeAtOffset(CursorFile, "FN", request.position.offset))
SelfTokensInFn ==
    {i \in DOMAIN CursorFile.tokens :
        /\ CursorFile.tokens[i].kind = "SELF_KW"
        /\ ContainsRange(NodeRange(CursorFn), TokRange(CursorFile.tokens[i]))}
HasEdit(range, texts) ==
    \E k \in DOMAIN response.source_file_edits :
        /\ response.source_file_edits[k].file_id = request.position.file_id
        /\ response.source_file_edits[k].delete = range
        /\ response.source_file_edits[k].insert \in texts
SelfRemovalOk == IsRename /\ InTrace("rename_self_to_param") /\ response.ok

\* C8: a successful self-removal to the name N replaces the self parameter
\* by `N: <prefix><TypeName>`, TypeName being the name of the impl's path
\* type and prefix one of "", "&", "&mut ", and replaces every other
\* `self` keyword token of the function by N; `fn f(&mut self) { self.i; }`
\* in `impl Foo` renamed to foo becomes `fn f(foo: &mut Foo) { foo.i; }`.
C8_SelfRemovalRewrites ==
    SelfRemovalOk =>
        /\ \A i \in SelfTokensInFn :
            IF TokenParent(CursorFile, i).kind = "SELF_PARAM"
            THEN /\ db.impl \in {"Foo", "Bar"}
                 /\ HasEdit(NodeRange(TokenParent(CursorFile, i)),
                            {request.new_name \o ": " \o prefix \o db.impl :
                                prefix \in {"", "&", "&mut "}})
            ELSE HasEdit(TokRange(CursorFile.tokens[i]), {request.new_name})
        /\ (/\ db = Fixture("method", "Foo", "&mut self", FALSE, 1, "plain")
            /\ request.new_name = "foo")
            => /\ CursorFile.text = "impl Foo { fn f(&mut self) { self.i; } }"
               /\ ApplyEdits(CursorFile.text, response.source_file_edits)
                    = "impl Foo { fn f(foo: &mut Foo) { foo.i; } }"

C8_Witness ==
    /\ SelfRemovalOk
    /\ db = Fixture("method", "Foo", "&mut self", FALSE, 1, "plain")
    /\ request.new_name = "foo" /\ request.position.offset = 23
    /\ Len(response.source_file_edits) = 2
    /\ ApplyEdits(CursorFile.text, response.source_file_edits)
        = "impl Foo { fn f(foo: &mut Foo) { foo.i; } }"

\* the prefix the claim C9 expects for a self parameter
ExpectedOwnershipPrefix(recv) ==
    IF recv = "&mut self" THEN "&mut " ELSE IF recv = "&self" THEN "&" ELSE ""

\* C9: in a successful self-removal the self parameter is replaced by the
\* name, ": ", a prefix and the type name, and the prefix is "&mut " exactly
\* for `&mut self`, "&" exactly for `&self` and empty exactly for a self
\* parameter without `&`.
C9_PrefixMatchesOwnership ==
    (SelfRemovalOk /\ db.family = "method" /\ db.recv \in SelfForms) =>
        \A i \in SelfTokensInFn :
            TokenParent(CursorFile, i).kind = "SELF_PARAM" =>
                HasEdit(NodeRange(TokenParent(CursorFile, i)),
                        {request.new_name \o ": " \o ExpectedOwnershipPrefix(db.recv)
                            \o db.impl})

\* the first parameter of the method of a method snapshot
FirstParamNode ==
    CHOOSE n \in CursorFile.nodes :
        n.kind = "PARAM" /\ \A m \in CursorFile.nodes : m.kind = "PARAM" => n.lo <= m.lo

\* the type comparison of the self-introduction is reached: the cursor is
\* in the first parameter of a method of an impl that has no self parameter
ReachesTypeComparison ==
    /\ IsRename /\ request.new_name = "self"
    /\ db.family = "method" /\ db.impl # "none" /\ db.recv \in ParamTypes
    /\ Contains(NodeRange(FirstParamNode), request.position.offset)

\* the types P and T of the claim C10, as written in the source text
FirstParamTypeText == IF db.lead THEN "()" ELSE db.recv
IsRefText(ty) == Len(ty) >= 1 /\ SubSeq(ty, 1, 1) = "&"
IsMutRefText(ty) == Len(ty) >= 5 /\ SubSeq(ty, 1, 5) = "&mut "
StripRefText(ty) ==
    IF IsMutRefText(ty) THEN SubSeq(ty, 6, Len(ty)) ELSE SubSeq(ty, 2, Len(ty))

\* the receiver form and the type required to equal T, as C10 states them
ClaimedForm(p, t) ==
    IF IsRefText(t) THEN [form |-> "self", required |-> p]
    ELSE IF IsMutRefText(p) THEN [form |-> "&mut self", required |-> StripRefText(p)]
    ELSE IF IsRefText(p) THEN [form |-> "&self", required |-> StripRefText(p)]
    ELSE [form |-> "self", required |-> p]

\* C10: with P the first parameter's type and T the impl's target type,
\* the self-introduction fails with "Parameter type differs from impl block
\* type" whenever the type required by the receiver form differs from T
\* (P itself when T is a reference or P is no reference, X when P is &X or
\* &mut X); otherwise it does not fail so, and a successful rename ends
\* with the replacement of the first parameter by the receiver form.
C10_ReceiverForm ==
    ReachesTypeComparison =>
        IF ClaimedForm(FirstParamTypeText, db.impl).required # db.impl
        THEN /\ ~response.ok
             /\ response.err = <<"Parameter type differs from impl block type">>
        ELSE /\ response.err # <<"Parameter type differs from impl block type">>
             /\ response.ok =>
                    response.source_file_edits[Len(response.source_file_edits)]
                        = [file_id |-> request.position.file_id,
                           delete |-> NodeRange(FirstParamNode),
                           insert |-> ClaimedForm(FirstParamTypeText, db.impl).form]

C10_Witness ==
    /\ ReachesTypeComparison /\ response.ok
    /\ db.impl = "&Foo" /\ db.recv = "&Foo" /\ db.usages = 2
    /\ Len(response.source_file_edits) = 3
    /\ response.source_file_edits[3].insert = "self"

\* the nodes of a kind whose range, ends included, has the cursor
NodesAtCursor(kind) ==
    {n \in CursorFile.nodes :
        n.kind = kind /\ n.lo <= request.position.offset /\ request.position.offset <= n.hi}
\* the nodes of a kind inside the function at the cursor
InCursorFn(kind) ==
    {n \in CursorFile.nodes :
        /\ n.kind = kind
        /\ \E f \in NodesAtCursor("FN") : ContainsRange(NodeRange(f), NodeRange(n))}
\* the cursor is inside the first of the parameters that are not `self`
CursorInFirstParam ==
    \E n \in InCursorFn("PARAM") :
        /\ \A m \in InCursorFn("PARAM") : n.lo <= m.lo
        /\ n.lo <= request.position.offset /\ request.position.offset < n.hi

\* the first precondition of the self-introduction that is violated, by
\* its message; "" when none is
FirstViolatedPrecondition ==
    IF NodesAtCursor("FN") = {} THEN "No surrounding method declaration found"
    ELSE IF InCursorFn("PARAM") = {} THEN "Method has no parameters"
    ELSE IF ~CursorInFirstParam THEN "Only the first parameter can be self"
    ELSE IF NodesAtCursor("IMPL") = {} THEN "No impl block found for function"
    ELSE IF InCursorFn("SELF_PARAM") # {} THEN "Method already has a self parameter"
    ELSE ""

PreconditionMessages ==
    {<<"No surrounding method declaration found">>, <<"Method has no parameters">>,
     <<"Only the first parameter can be self">>, <<"No impl block found for function">>,
     <<"Method already has a self parameter">>}

\* C11: the self-introduction fails with the message of the first violated
\* precondition in the order: no enclosing function, no parameter other
\* than self, cursor outside the first parameter, no enclosing impl, a self
\* parameter already present; when none is violated it fails with none of
\* these messages.  A non-first parameter of a free function reports the
\* not-first error.
C11_PreconditionOrder ==
    (IsRename /\ request.new_name = "self") =>
        IF FirstViolatedPrecondition # ""
        THEN /\ ~response.ok
             /\ response.err = <<FirstViolatedPrecondition>>
             /\ response.trace = <<"rename_to_self">>
        ELSE response.err \notin PreconditionMessages

C11_Witness ==
    /\ IsRename /\ request.new_name = "self"
    /\ db.family = "method" /\ db.impl = "none" /\ db.lead /\ db.recv = "&Foo"
    /\ NodesAtCursor("PARAM") # {} /\ ~CursorInFirstParam
    /\ NodesAtCursor("IMPL") = {}
    /\ response.err = <<"Only the first parameter can be self">>

\* a self-introduction with a given search result got past the type
\* comparison
IntroSplitReached ==
    /\ request.op = "rename_to_self"
    /\ FirstViolatedPrecondition = ""
    /\ response.err # <<"Parameter type differs from impl block type">>
    /\ IsSome(request.found)

\* the references of the given search result: the declaration, then the
\* usages; those lying in the range of the first parameter and the others
GivenRefs == <<Unwrap(request.found).declaration>> \o Unwrap(request.found).references
RefInParam(r) == ContainsRange(NodeRange(FirstParamNode), r.range)
OutsideRefs == SelectSeq(GivenRefs, LAMBDA r : ~RefInParam(r))

\* C12: past the type comparison, when no reference lies in the range of
\* the first parameter the self-introduction fails with "Parameter to
\* rename not found"; otherwise it succeeds with one edit to `self` per
\* reference outside that range, in order, and then exactly one edit that
\* replaces the whole range of the first parameter by the receiver form;
\* the references in the range get no edit of their own.
C12_SelfIntroductionEdits ==
    IntroSplitReached =>
        IF \A k \in DOMAIN GivenRefs : ~RefInParam(GivenRefs[k])
        THEN /\ ~response.ok
             /\ response.err = <<"Parameter to rename not found">>
        ELSE /\ response.ok
             /\ Len(response.source_file_edits) = Len(OutsideRefs) + 1
             /\ \A k \in DOMAIN OutsideRefs :
                    response.source_file_edits[k]
                        = [file_id |-> OutsideRefs[k].file_id,
                           delete |-> OutsideRefs[k].range, insert |-> "self"]
             /\ response.source_file_edits[Len(OutsideRefs) + 1]
                    = [file_id |-> request.position.file_id,
                       delete |-> NodeRange(FirstParamNode),
                       insert |-> ClaimedForm(FirstParamTypeText, db.impl).form]
             /\ response.file_system_edits = <<>>

C12_Witness ==
    /\ IntroSplitReached /\ response.ok
    /\ db.recv = "&Foo" /\ ~db.lead
    /\ Len(GivenRefs) = 3 /\ RefInParam(GivenRefs[1]) /\ RefInParam(GivenRefs[2])
    /\ ~RefInParam(GivenRefs[3])
    /\ Len(response.source_file_edits) = 2
    /\ response.source_file_edits[2].insert = "&self"

GenericRenameOk == IsRename /\ InTrace("rename_reference") /\ response.ok

\* the entity of the token the reference search started from, and the
\* occurrences bound to entities in all files
CursorEntity ==
    EntityOf(CursorFile.tokens[CHOOSE i \in DOMAIN CursorFile.tokens :
                                TokRange(CursorFile.tokens[i]) = Unwrap(Found).range].refs)
OccurrencesOf(ents) ==
    UNION { { [file_id |-> f, range |-> TokRange(Snap.files[f].tokens[i])] :
              i \in {j \in DOMAIN Snap.files[f].tokens :
                        \E r \in Snap.files[f].tokens[j].refs : r.ent \in ents} } :
            f \in DOMAIN Snap.files }

\* C13: a successful generic rename to N returns, for the declaration and
\* then every usage of the search result, one edit that replaces the range
\* of the reference by N, and nothing else; the ranges edited are exactly
\* the occurrences bound to the entity at the cursor.  `let i = 1; i; i;`
\* renamed at the declaration of i to foo becomes `let foo = 1; foo; foo;`.
C13_GenericRenameEdits ==
    GenericRenameOk =>
        /\ Len(response.source_file_edits) = 1 + Len(Unwrap(Found).references)
        /\ Unwrap(Found).declaration.kind \in {"Other", "Lifetime"}
            => response.source_file_edits[1]
                = [file_id |-> Unwrap(Found).declaration.file_id,
                   delete |-> Unwrap(Found).declaration.range, insert |-> request.new_name]
        /\ \A k \in DOMAIN Unwrap(Found).references :
            Unwrap(Found).references[k].kind \in {"Other", "Lifetime"}
            => response.source_file_edits[k + 1]
                = [file_id |-> Unwrap(Found).references[k].file_id,
                   delete |-> Unwrap(Found).references[k].range, insert |-> request.new_name]
        /\ (/\ Unwrap(Found).declaration.kind \in {"Other", "Lifetime"}
            /\ \A k \in DOMAIN Unwrap(Found).references :
                  Unwrap(Found).references[k].kind \in {"Other", "Lifetime"})
            => { [file_id |-> response.source_file_edits[k].file_id,
                  range |-> response.source_file_edits[k].delete] :
                 k \in DOMAIN response.source_file_edits } = OccurrencesOf({CursorEntity})
        /\ response.file_system_edits = <<>>
        /\ (/\ db = Fixture("generic", "local", "none", FALSE, 2, "plain")
            /\ request.new_name = "foo")
            => /\ CursorFile.text = "fn main() { let i = 1; i; i; }"
               /\ ApplyEdits(CursorFile.text, response.source_file_edits)
                    = "fn main() { let foo = 1; foo; foo; }"

C13_Witness ==
    /\ GenericRenameOk
    /\ db = Fixture("generic", "local", "none", FALSE, 2, "plain")
    /\ request.new_name = "foo" /\ request.position.offset = 16
    /\ Len(response.source_file_edits) = 3
    /\ ApplyEdits(CursorFile.text, response.source_file_edits)
        = "fn main() { let foo = 1; foo; foo; }"

\* the cursor is on the declaration of the field of a field snapshot
CursorOnFieldDecl ==
    \E k \in 1..Len(CursorTokens) :
        \E r \in CursorFile.tokens[CursorTokens[k]].refs : r.ent = "field" /\ r.decl

\* the text of the field snapshot with field f and value v, the shorthand
\* being used when it can be
FieldText(f, v) ==
    FileTexts[Fixture("field", f, v, FALSE, 1, IF f = v THEN "shorthand" ELSE "explicit")][0]

\* C14: renaming the field f of `Foo { f: v }` to v gives the shorthand
\* `Foo { v }`; renaming the field of the result to g gives `Foo { g: v }`,
\* with the value v unchanged.
C14_ShorthandRoundTrip ==
    /\ (/\ request.op = "rename" /\ db.family = "field" /\ db.decor = "explicit"
        /\ CursorOnFieldDecl /\ request.new_name = db.recv)
        => /\ response.ok
           /\ ChangedTexts(Snap, response.source_file_edits)[0] = FieldText(db.recv, db.recv)
           /\ FieldText(db.recv, db.recv)
                = "struct Foo { foo: () } fn mk(foo: ()) { Foo { foo }; }"
    /\ (/\ request.op = "rename_again" /\ request.from.family = "field"
        /\ request.from.decor = "explicit" /\ db.decor = "shorthand"
        /\ CursorOnFieldDecl /\ request.new_name \in {"i", "j"})
        => /\ response.ok
           /\ ChangedTexts(Snap, response.source_file_edits)[0]
                = FieldText(request.new_name, db.recv)
           /\ FieldText("j", db.recv) = "struct Foo { j: () } fn mk(foo: ()) { Foo { j: foo }; }"
           /\ request.new_name = request.from.impl
                => ChangedTexts(Snap, response.source_file_edits)[0] = FileTexts[request.from][0]

C14_Witness ==
    /\ request.op = "rename_again" /\ request.from = Fixture("field", "i", "foo", FALSE, 1, "explicit")
    /\ request.first_name = "foo"
    /\ db = Fixture("field", "foo", "foo", FALSE, 1, "shorthand")
    /\ CursorOnFieldDecl /\ request.new_name = "j" /\ response.ok
    /\ ChangedTexts(Snap, response.source_file_edits)[0]
        = "struct Foo { j: () } fn mk(foo: ()) { Foo { j: foo }; }"

\* the second rename is a self-removal to the name foo of the parameter
\* that an applied self-introduction had turned into the receiver
RemovalAfterIntroduction ==
    /\ request.op = "rename_again"
    /\ request.from.family = "method" /\ request.first_name = "self"
    /\ CursorOnSelf /\ request.new_name = "foo"

\* C15: the self-removal to the original parameter name that follows an
\* applied self-introduction succeeds and restores the method: the first
\* parameter is `foo` with the type it had (the ownership and the impl's
\* target type) and every usage reads foo again.
C15_IntroductionThenRemoval ==
    RemovalAfterIntroduction =>
        /\ response.ok
        /\ ChangedTexts(Snap, response.source_file_edits)[0] = FileTexts[request.from][0]

\* two ranges share no text
DisjointRanges(a, b) == a[2] <= b[1] \/ b[2] <= a[1]

C17_NoPartialEdits ==
    (request.op \in {"rename", "prepare_rename"}) =>
        /\ IF response.ok THEN response.err = <<>>
           ELSE /\ response.err # <<>>
                /\ response.source_file_edits = <<>>
                /\ response.file_system_edits = <<>>
        /\ (ModuleRenameEntered /\ Found = None) => ~response.ok
        /\ (/\ IsRename /\ InTrace("rename_self_to_param")
            /\ InCursorFn("SELF_PARAM") # {} /\ db.impl \notin {"Foo", "Bar"}) => ~response.ok

C17_Witness ==
    /\ ModuleRenameEntered /\ Found = None
    /\ TheModule.definition_source.kind = "SourceFile" /\ IsSome(TheModule.declaration_source)
    /\ response.err = <<"No references found at position">>
    /\ response.source_file_edits = <<>> /\ response.file_system_edits = <<>>

(***************************************************************************)
(* Properties of goto_definition                                           *)
(***************************************************************************)
IsGoto == request.op = "goto_definition"
\* the tokens that touch the cursor, as a set of token indices
Candidates == {CursorTokens[k] : k \in 1..Len(CursorTokens)}
\* the token the response says was chosen
ChosenTokens == {i \in Candidates : Some(TokRange(CursorFile.tokens[i])) = response.token}
\* the priority classes of the token kinds
TopKinds == {"IDENT", "INT_NUMBER", "LIFETIME_IDENT", "SELF_KW"}
TriviaKinds == {"WHITESPACE", "COMMENT"}
Rank(kind) == IF kind \in TopKinds THEN 2 ELSE IF kind \in TriviaKinds THEN 0 ELSE 1

\* C20: the token locator returns nothing exactly when no token touches
\* the offset; otherwise it returns one of the tokens touching the offset
\* and no other of them has a greater priority, where identifiers, integer
\* literals, lifetime identifiers and `self` rank 2, trivia 0 and every
\* other token 1; between punctuation and an identifier it is the identifier.
C20_PickBest ==
    IsGoto =>
        /\ (response.token = None) <=> (Candidates = {})
        /\ (Candidates # {}) =>
               /\ ChosenTokens # {}
               /\ \A i \in ChosenTokens, j \in Candidates :
                      Rank(CursorFile.tokens[j].kind) <= Rank(CursorFile.tokens[i].kind)
        /\ (\E i, j \in Candidates : /\ CursorFile.tokens[i].kind = "PUNCT"
                                      /\ CursorFile.tokens[j].kind = "IDENT") =>
               \A i \in ChosenTokens : CursorFile.tokens[i].kind = "IDENT"

\* the cursor is between a punctuation and the identifier after it, and
\* the identifier was chosen
C20_Witness ==
    /\ IsGoto
    /\ Len(CursorTokens) = 2
    /\ CursorFile.tokens[CursorTokens[1]].kind = "PUNCT"
    /\ CursorFile.tokens[CursorTokens[2]].kind = "IDENT"
    /\ response.token = Some(TokRange(CursorFile.tokens[CursorTokens[2]]))

\* the names (the identifiers of NAME nodes) that touch the cursor
NamesAtCursor == {i \in Candidates : /\ CursorFile.tokens[i].kind = "IDENT"
                                      /\ TokenParent(CursorFile, i).kind = "NAME"}
CursorName == CursorFile.tokens[CHOOSE i \in NamesAtCursor : TRUE]
\* the name declares an entity that has a navigation target
DeclaresNavigable(tok) == \E r \in tok.refs : r.decl /\ r.ent \notin Snap.hidden
\* the name is the shorthand of a record pattern: it binds a local and
\* stands for a field
IsPatShorthand(tok) == \E r \in tok.refs : ~r.decl /\ r.kind = "FieldShorthandForField"
\* the ranges of the names that declare the field a shorthand stands for
FieldDeclRanges(tok) ==
    {TokRange(CursorFile.tokens[i]) :
        i \in {j \in DOMAIN CursorFile.tokens :
                  \E r \in CursorFile.tokens[j].refs, q \in tok.refs :
                      /\ q.kind = "FieldShorthandForField" /\ r.ent = q.ent /\ r.decl}}
\* one target, and its focus is the range
OneTargetAt(range) ==
    /\ response.some
    /\ Len(response.targets) = 1
    /\ response.targets[1].file_id = request.position.file_id
    /\ FocusOrFullRange(response.targets[1]) = range

PatShorthandReached ==
    IsGoto /\ NamesAtCursor # {} /\ IsPatShorthand(CursorName) /\ response.some

\* the usages (identifiers of NAME_REF nodes, lifetimes that declare
\* nothing) that touch the cursor: the tokens handed to reference_definition
UsagesAtCursor ==
    {i \in Candidates :
        \/ /\ CursorFile.tokens[i].kind = "IDENT"
           /\ TokenParent(CursorFile, i).kind = "NAME_REF"
        \/ /\ CursorFile.tokens[i].kind = "LIFETIME_IDENT"
           /\ \A r \in CursorFile.tokens[i].refs : ~r.decl}
CursorUsage == CursorFile.tokens[CHOOSE i \in UsagesAtCursor : TRUE]
\* the classification of the usage: an entity, or nothing
Classified(tok) == \E r \in tok.refs : ~r.decl
Navigable(tok) == EntityOf({r \in tok.refs : ~r.decl}) \notin Snap.hidden
\* the names of items, in all files, of the text of the token
ItemNames(tok) ==
    UNION { { [file_id |-> f, range |-> TokRange(Snap.files[f].tokens[i])] :
              i \in {j \in DOMAIN Snap.files[f].tokens :
                        /\ Snap.files[f].tokens[j].text = tok.text
                        /\ TokenParent(Snap.files[f], j).kind = "NAME"
                        /\ ParentNode(Snap.files[f], TokenParent(Snap.files[f], j)).kind
                               \in ItemKinds} } :
            f \in DOMAIN Snap.files }
TargetSites ==
    {[file_id |-> response.targets[k].file_id,
      range |-> FocusOrFullRange(response.targets[k])] : k \in 1..Len(response.targets)}

\* C19 as stated: the result is Approximate with an empty list exactly
\* when the usage classifies as an entity without a navigation target.
C19_EmptyApproximateOnlyWithoutTarget ==
    (IsGoto /\ UsagesAtCursor # {}) =>
        ((response.reference = "Approximate" /\ response.targets = <<>>)
            <=> (Classified(CursorUsage) /\ ~Navigable(CursorUsage)))

\* C19: the result is Exact with one target exactly when the usage
\* classifies as an entity that has a navigation target; it is Approximate
\* with no target and without the symbol index being asked exactly when the
\* usage classifies as an entity without one, and goto_definition then
\* returns a result with an empty list; the symbol index is asked exactly
\* when the usage does not classify, and the result is then Approximate
\* with every item of the text of the usage, which may be none.
C19_ReferenceDefinition ==
    (IsGoto /\ UsagesAtCursor # {}) =>
        /\ response.some
        /\ response.reference \in {"Exact", "Approximate"}
        /\ (response.reference = "Exact")
              <=> (Classified(CursorUsage) /\ Navigable(CursorUsage))
        /\ (response.reference = "Exact") => Len(response.targets) = 1
        /\ (response.reference = "Approximate" /\ ~InTrace("index_resolve"))
              <=> (Classified(CursorUsage) /\ ~Navigable(CursorUsage))
        /\ (response.reference = "Approximate" /\ ~InTrace("index_resolve"))
              => response.targets = <<>>
        /\ InTrace("index_resolve") <=> ~Classified(CursorUsage)
        /\ InTrace("index_resolve") =>
              /\ response.reference = "Approximate"
              /\ TargetSites = ItemNames(CursorUsage)
              /\ Len(response.targets) = Cardinality(ItemNames(CursorUsage))

\* the usage is of an entity without a navigation target: a result with an
\* empty list, made without the symbol index
C19_Witness ==
    /\ IsGoto
    /\ UsagesAtCursor # {}
    /\ Classified(CursorUsage) /\ ~Navigable(CursorUsage)
    /\ response.some /\ response.targets = <<>>
    /\ response.reference = "Approximate" /\ ~InTrace("index_resolve")

\* the symbol index was asked and had items of the name
IndexMatchReached == IsGoto /\ InTrace("index_resolve") /\ response.targets # <<>>
\* the symbol index was asked and had none
IndexEmptyReached == IsGoto /\ InTrace("index_resolve") /\ response.targets = <<>>
\* there was no token at the offset
NoTokenReached == IsGoto /\ Candidates = {} /\ response.token = None

\* the two tokens that touch the offset have one priority
TieAtCursor ==
    /\ IsGoto
    /\ Len(CursorTokens) = 2
    /\ Rank(CursorFile.tokens[CursorTokens[1]].kind)
        = Rank(CursorFile.tokens[CursorTokens[2]].kind)

\* C21: when the two tokens that touch the offset have one priority, the
\* token locator keeps the first of them, the token left of the offset.
C21_TieKeepsFirst ==
    TieAtCursor => response.token = Some(TokRange(CursorFile.tokens[CursorTokens[1]]))

\* on a tie the token right of the offset is the one kept
TieKeepsLast ==
    TieAtCursor => response.token = Some(TokRange(CursorFile.tokens[CursorTokens[2]]))

(***************************************************************************)
(* Properties of the returned change                                       *)
(***************************************************************************)
RenameOk == IsRename /\ response.ok
\* the edits of the entries of the returned change, each with its file
ChangeEdits ==
    UNION { { [file_id |-> response.source_change[j].file_id,
               delete |-> response.source_change[j].indels[k].delete,
               insert |-> response.source_change[j].indels[k].insert] :
              k \in DOMAIN response.source_change[j].indels } :
            j \in DOMAIN response.source_change }
StrategyEdits == {response.source_file_edits[k] : k \in DOMAIN response.source_file_edits}

Answered(c) == request[c] # NoRequest /\ response[c] # NoResponse

SelfEditRange(i) ==
    IF TokenParent(CursorFile, i).kind = "SELF_PARAM"
    THEN NodeRange(TokenParent(CursorFile, i))
    ELSE TokRange(CursorFile.tokens[i])
EditedRanges == {response.source_file_edits[k].delete : k \in DOMAIN response.source_file_edits}

\* C24: a successful self-removal edits exactly the `self` keyword tokens
\* inside the range of the function around the cursor: none of the text
\* `self` in an identifier or a comment, and no `self` token outside the
\* function, the one that starts at the end offset of the function included.
C24_SelfTokensOfFnOnly ==
    SelfRemovalOk =>
        /\ EditedRanges = {SelfEditRange(i) : i \in SelfTokensInFn}
        /\ \A k \in DOMAIN response.source_file_edits :
              response.source_file_edits[k].file_id = request.position.file_id

\* the self-removal edited a `self` token that starts where the function ends
SelfAtFnEndEdited ==
    /\ SelfRemovalOk
    /\ \E i \in DOMAIN CursorFile.tokens :
          /\ CursorFile.tokens[i].kind = "SELF_KW"
          /\ CursorFile.tokens[i].lo = CursorFn.hi
          /\ TokRange(CursorFile.tokens[i]) \in EditedRanges

\* apart from the token at the end offset the edits are those of the claim
SelfTokensUpToFnEnd ==
    SelfRemovalOk =>
        EditedRanges = {SelfEditRange(i) :
                           i \in {j \in DOMAIN CursorFile.tokens :
                                    /\ CursorFile.tokens[j].kind = "SELF_KW"
                                    /\ CursorFn.lo <= CursorFile.tokens[j].lo
                                    /\ CursorFile.tokens[j].lo <= CursorFn.hi}}

\* the self-removal strategy was entered
SelfRemovalEntered == IsRename /\ InTrace("rename_self_to_param")
\* the functions around the cursor
CursorFns == NodesAtCursor("FN")
\* the self parameters the scan of the function at the cursor comes to
ScannedSelfParams ==
    {TokenParent(CursorFile, i) :
        i \in {j \in DOMAIN CursorFile.tokens :
                 /\ CursorFile.tokens[j].kind = "SELF_KW"
                 /\ TokenParent(CursorFile, j).kind = "SELF_PARAM"
                 /\ CursorFn.lo <= CursorFile.tokens[j].lo
                 /\ CursorFile.tokens[j].lo <= CursorFn.hi}}
\* the impl blocks around a node
ImplsAround(n) == {m \in CursorFile.nodes : m.kind = "IMPL" /\ ContainsRange(NodeRange(m), NodeRange(n))}
\* the target type of the impl of the fixture is a path of one name
ImplOfNamedPath == db.impl \in {"Foo", "Bar"}

\* C25: without a function around the cursor a self-removal fails with
\* "No surrounding method declaration found"; with one it fails with
\* "No target type found" whenever a self parameter is among the occurrences
\* and has no impl block around it or an impl whose target type is no path
\* of one name, and it succeeds otherwise.
C25_SelfRemovalErrors ==
    SelfRemovalEntered =>
        IF CursorFns = {}
        THEN ~response.ok /\ response.err = Message("No surrounding method declaration found")
        ELSE IF \E p \in ScannedSelfParams : ImplsAround(p) = {} \/ ~ImplOfNamedPath
        THEN ~response.ok /\ response.err = Message("No target type found")
        ELSE response.ok

\* the self parameter of a method of `impl &Foo` stops the self-removal
C25_Witness ==
    /\ SelfRemovalEntered
    /\ CursorFns # {}
    /\ \E p \in ScannedSelfParams : ImplsAround(p) # {} /\ db.impl = "&Foo"
    /\ ~response.ok /\ response.err = Message("No target type found")

\* a self parameter outside every impl block stops the self-removal
NoImplReached ==
    /\ SelfRemovalEntered /\ CursorFns # {}
    /\ \E p \in ScannedSelfParams : ImplsAround(p) = {}
    /\ response.err = Message("No target type found")
\* a `self` token outside every function
NoFnReached ==
    /\ SelfRemovalEntered /\ CursorFns = {}
    /\ response.err = Message("No surrounding method declaration found")

\* the references a successful generic rename makes edits for, in order
RenamedRefs == RefsIntoIter(Unwrap(Found))
\* the text after the edits of the response
RenamedText == ApplyEdits(CursorFile.text, response.source_file_edits)

\* C26: the edit for a FieldShorthandForField reference inserts `N: ` at
\* the start of the reference's range and the edit for a
\* FieldShorthandForLocal reference inserts `: N` at its end; the range of
\* either edit is empty, so the shorthand's own text stays in the file.
\* `Foo { foo }` becomes `Foo { _: foo }` when the field is renamed to _
\* and `Foo { foo: _ }` when the local is.
C26_ShorthandInsertions ==
    GenericRenameOk =>
        /\ \A k \in DOMAIN RenamedRefs :
            /\ RenamedRefs[k].kind = "FieldShorthandForField"
                => /\ response.source_file_edits[k].file_id = RenamedRefs[k].file_id
                   /\ response.source_file_edits[k].delete
                        = <<RenamedRefs[k].range[1], RenamedRefs[k].range[1]>>
                   /\ response.source_file_edits[k].insert = request.new_name \o ": "
            /\ RenamedRefs[k].kind = "FieldShorthandForLocal"
                => /\ response.source_file_edits[k].file_id = RenamedRefs[k].file_id
                   /\ response.source_file_edits[k].delete
                        = <<RenamedRefs[k].range[2], RenamedRefs[k].range[2]>>
                   /\ response.source_file_edits[k].insert = ": " \o request.new_name
        /\ (db = Fixture("field", "foo", "foo", FALSE, 1, "shorthand") /\ request.new_name = "_")
            => /\ CursorFile.text = "struct Foo { foo: () } fn mk(foo: ()) { Foo { foo }; }"
               /\ RenamedText = IF CursorOnFieldDecl
                                THEN "struct Foo { _: () } fn mk(foo: ()) { Foo { _: foo }; }"
                                ELSE "struct Foo { foo: () } fn mk(_: ()) { Foo { foo: _ }; }"
        /\ (db = Fixture("field", "i", "foo", FALSE, 1, "pattern") /\ request.new_name = "foo")
            => /\ CursorFile.text = "struct Foo { i: () } fn mk(foo: Foo) { let Foo { i } = foo; }"
               /\ CursorOnFieldDecl
                    => RenamedText = "struct Foo { foo: () } fn mk(foo: Foo) { let Foo { foo: i } = foo; }"

\* the field of `Foo { foo }` is renamed to _
C26_Witness ==
    /\ GenericRenameOk
    /\ db = Fixture("field", "foo", "foo", FALSE, 1, "shorthand")
    /\ request.new_name = "_" /\ CursorOnFieldDecl
    /\ \E k \in DOMAIN RenamedRefs :
          /\ RenamedRefs[k].kind = "FieldShorthandForField"
          /\ response.source_file_edits[k].insert = "_: "
    /\ RenamedText = "struct Foo { _: () } fn mk(foo: ()) { Foo { _: foo }; }"

\* the local of `Foo { foo }` is renamed to _
ShorthandLocalRenamed ==
    /\ GenericRenameOk
    /\ db = Fixture("field", "foo", "foo", FALSE, 1, "shorthand")
    /\ request.new_name = "_" /\ ~CursorOnFieldDecl
    /\ \E k \in DOMAIN RenamedRefs :
          /\ RenamedRefs[k].kind = "FieldShorthandForLocal"
          /\ response.source_file_edits[k].insert = ": _"

\* the smallest record-expression field or record-pattern field around a
\* reference
FieldNodesAround(reference) ==
    {n \in Snap.files[reference.file_id].nodes :
        /\ n.kind \in {"RECORD_EXPR_FIELD", "RECORD_PAT_FIELD"}
        /\ ContainsRange(NodeRange(n), reference.range)}
FieldNodeAround(reference) ==
    CHOOSE n \in FieldNodesAround(reference) :
        \A m \in FieldNodesAround(reference) : RangeLen(NodeRange(n)) <= RangeLen(NodeRange(m))
\* the text that follows `name: ` in the field node around a reference
OtherHalfText(reference) ==
    SubSeq(Snap.files[reference.file_id].text, reference.range[2] + 3,
           FieldNodeAround(reference).hi)

\* C27: the edit for a RecordFieldExprOrPat reference inserts the new name;
\* it replaces the whole record-expression field or record-pattern field
\* around the reference when the name on the other side of that field is
\* the new name, and the range of the reference otherwise.
\* `let Foo { i: foo } = foo;` becomes `let Foo { foo } = foo;` when the
\* field i is renamed to foo and `let Foo { _: foo } = foo;` when it is
\* renamed to _.
C27_RecordFieldRange ==
    GenericRenameOk =>
        /\ \A k \in DOMAIN RenamedRefs :
            RenamedRefs[k].kind = "RecordFieldExprOrPat"
                => /\ response.source_file_edits[k].file_id = RenamedRefs[k].file_id
                   /\ response.source_file_edits[k].insert = request.new_name
                   /\ response.source_file_edits[k].delete
                        = IF /\ FieldNodesAround(RenamedRefs[k]) # {}
                             /\ OtherHalfText(RenamedRefs[k]) = request.new_name
                          THEN NodeRange(FieldNodeAround(RenamedRefs[k]))
                          ELSE RenamedRefs[k].range
        /\ (db = Fixture("field", "i", "foo", FALSE, 1, "pattern_explicit") /\ CursorOnFieldDecl)
            => /\ CursorFile.text
                    = "struct Foo { i: () } fn mk(foo: Foo) { let Foo { i: foo } = foo; }"
               /\ request.new_name = "foo"
                    => RenamedText
                        = "struct Foo { foo: () } fn mk(foo: Foo) { let Foo { foo } = foo; }"
               /\ request.new_name = "_"
                    => RenamedText
                        = "struct Foo { _: () } fn mk(foo: Foo) { let Foo { _: foo } = foo; }"

\* the field of `let Foo { i: foo } = foo;` is renamed to foo
C27_Witness ==
    /\ GenericRenameOk
    /\ db = Fixture("field", "i", "foo", FALSE, 1, "pattern_explicit")
    /\ CursorOnFieldDecl /\ request.new_name = "foo"
    /\ \E k \in DOMAIN RenamedRefs :
          /\ RenamedRefs[k].kind = "RecordFieldExprOrPat"
          /\ response.source_file_edits[k].delete = NodeRange(FieldNodeAround(RenamedRefs[k]))
          /\ response.source_file_edits[k].delete # RenamedRefs[k].range
    /\ RenamedText = "struct Foo { foo: () } fn mk(foo: Foo) { let Foo { foo } = foo; }"

\* the field of `Foo { i: foo }` is renamed to foo, and to another name
ExprFieldCollapsed ==
    /\ GenericRenameOk /\ db = Fixture("field", "i", "foo", FALSE, 1, "explicit")
    /\ CursorOnFieldDecl /\ request.new_name = "foo"
    /\ RenamedText = "struct Foo { foo: () } fn mk(foo: ()) { Foo { foo }; }"
FieldNameReplaced ==
    /\ GenericRenameOk /\ db.decor \in {"explicit", "pattern_explicit"}
    /\ CursorOnFieldDecl /\ request.new_name = "_"
    /\ \E k \in DOMAIN RenamedRefs :
          /\ RenamedRefs[k].kind = "RecordFieldExprOrPat"
          /\ response.source_file_edits[k].delete = RenamedRefs[k].range

\* the new names that are lifetimes a rename may introduce
LifetimeNames == {n \in NewNames : Len(n) > 1 /\ SubSeq(n, 1, 1) = "'"} \ {"'static", "'_"}
\* the ranges of the lifetime tokens of a file
LifetimeRanges(file) ==
    {TokRange(file.tokens[i]) : i \in {j \in DOMAIN file.tokens : file.tokens[j].kind = "LIFETIME_IDENT"}}

\* C28: a rename to a lifetime name takes the generic strategy wherever the
\* cursor is: the module rename and the self-removal are not entered, no
\* file is moved, and the result is an error or edits that put the new name
\* at lifetimes only.
C28_LifetimeNameIsGeneric ==
    (IsRename /\ request.new_name \in LifetimeNames) =>
        /\ InTrace("rename_reference")
        /\ ~InTrace("rename_mod")
        /\ ~InTrace("rename_self_to_param")
        /\ ~InTrace("find_module_at_offset")
        /\ response.file_system_edits = <<>>
        /\ IF response.ok
           THEN /\ response.source_file_edits # <<>>
                /\ \A k \in DOMAIN response.source_file_edits :
                      /\ response.source_file_edits[k].insert = request.new_name
                      /\ response.source_file_edits[k].delete
                            \in LifetimeRanges(Snap.files[response.source_file_edits[k].file_id])
           ELSE /\ response.err # <<>>
                /\ response.source_file_edits = <<>>

\* a lifetime name for a module is refused by the generic strategy
C28_Witness ==
    /\ IsRename /\ request.new_name = "'foo" /\ CursorOnModule
    /\ db.family = "module" /\ db.decor = "plain"
    /\ ~response.ok
    /\ response.trace = <<"rename_reference", "find_all_refs">>

\* a lifetime name for a `self` token, and for a lifetime
LifetimeNameOnSelf ==
    /\ IsRename /\ request.new_name = "'foo" /\ CursorOnSelf
    /\ ~response.ok /\ InTrace("rename_reference")
LifetimeRenamed ==
    /\ IsRename /\ request.new_name = "'foo" /\ response.ok
    /\ Len(response.source_file_edits) > 1

\* goto_definition chose a `self` token of a path segment
SelfSegments ==
    {i \in ChosenTokens : /\ CursorFile.tokens[i].kind = "SELF_KW"
                          /\ TokenParent(CursorFile, i).kind = "PATH_SEGMENT"}
SelfSegmentChosen == IsGoto /\ SelfSegments # {}
SelfSegment == CHOOSE i \in SelfSegments : TRUE
\* the path that ends in the chosen segment, and whether `::` and a
\* qualifier come before the segment
SelfPath == ParentNode(CursorFile, TokenParent(CursorFile, SelfSegment))
SelfPathQualified ==
    /\ SelfPath.lo < CursorFile.tokens[SelfSegment].lo
    /\ SubSeq(CursorFile.text, CursorFile.tokens[SelfSegment].lo - 1,
              CursorFile.tokens[SelfSegment].lo) = "::"
\* the path is the whole of a path expression
SelfPathIsExpr ==
    \E n \in CursorFile.nodes : n.kind = "PATH_EXPR" /\ NodeRange(n) = NodeRange(SelfPath)
\* the functions around the chosen token, and the self parameters that the
\* smallest of them declares
FnsAroundSelf ==
    {f \in CursorFile.nodes :
        f.kind = "FN" /\ ContainsRange(NodeRange(f), TokRange(CursorFile.tokens[SelfSegment]))}
NearestFn ==
    CHOOSE f \in FnsAroundSelf : \A g \in FnsAroundSelf : RangeLen(NodeRange(f)) <= RangeLen(NodeRange(g))
SelfParamsOfNearestFn ==
    IF FnsAroundSelf = {} THEN {}
    ELSE {s \in CursorFile.nodes :
            /\ s.kind = "SELF_PARAM" /\ ContainsRange(NodeRange(NearestFn), NodeRange(s))
            /\ \A g \in CursorFile.nodes :
                  (g.kind = "FN" /\ ContainsRange(NodeRange(g), NodeRange(s)))
                      => ContainsRange(NodeRange(g), NodeRange(NearestFn))}
\* the range of the `self` token of a self parameter
SelfTokenOf(s) ==
    TokRange(CursorFile.tokens[CHOOSE i \in DOMAIN CursorFile.tokens :
                /\ CursorFile.tokens[i].kind = "SELF_KW"
                /\ ContainsRange(NodeRange(s), TokRange(CursorFile.tokens[i]))])

\* C29: on the `self` of a path segment goto_definition gives nothing when
\* a qualifier precedes the segment and the path is no path expression;
\* otherwise it gives one target, the self parameter of the nearest
\* function around the token, with the parameter as full range and its
\* `self` token as focus range, and nothing when that function declares no
\* self parameter, whatever the functions further out declare.
C29_SelfPathSegment ==
    SelfSegmentChosen =>
        IF SelfPathQualified /\ ~SelfPathIsExpr THEN ~response.some
        ELSE IF SelfParamsOfNearestFn = {} THEN ~response.some
        ELSE /\ response.some
             /\ response.range = TokRange(CursorFile.tokens[SelfSegment])
             /\ Len(response.targets) = 1
             /\ \E s \in SelfParamsOfNearestFn :
                   /\ response.targets[1].file_id = request.position.file_id
                   /\ response.targets[1].full_range = NodeRange(s)
                   /\ response.targets[1].focus_range = Some(SelfTokenOf(s))
                   /\ response.targets[1].name = "self"

\* `foo::self` as an expression inside fn f(&self) leads to the parameter
C29_Witness ==
    /\ SelfSegmentChosen
    /\ db = Fixture("method", "Foo", "&self", FALSE, 1, "paths")
    /\ SelfPathQualified /\ SelfPathIsExpr
    /\ response.some /\ Len(response.targets) = 1
    /\ response.targets[1].full_range = <<16, 21>>
    /\ response.targets[1].focus_range = Some(<<17, 21>>)

\* `use foo::self;` leads nowhere
QualifiedUsePathReached ==
    /\ SelfSegmentChosen /\ db.recv = "&self" /\ db.decor = "paths"
    /\ SelfPathQualified /\ ~SelfPathIsExpr /\ ~response.some
\* the `self` of fn g() inside fn f(&self) leads nowhere
NestedFnReached ==
    /\ SelfSegmentChosen /\ db.recv = "&self" /\ db.decor = "paths"
    /\ ~SelfPathQualified /\ Cardinality(FnsAroundSelf) = 2 /\ ~response.some
\* a `self` outside every function leads nowhere
SelfOutsideFnReached ==
    /\ SelfSegmentChosen /\ db.recv = "&self" /\ FnsAroundSelf = {} /\ ~response.some

IsPrepare == request.op = "prepare_rename"
\* the new names the rename accepts as a name, `self` left out: an
\* identifier, the underscore and a lifetime
RenamableNames == {"foo", "_", "'foo"} \cap NewNames
\* the answer of rename at the position of the request
RenameTo(n) == rename(Snap, request.position, n)
\* prepare_rename took the generic path
PreparedGeneric == IsPrepare /\ ~InTrace("rename_mod") /\ ~InTrace("rename_self_to_param")

\* C30: prepare_rename succeeds at a position exactly when rename succeeds
\* there for some valid new name other than `self`, and the two report one
\* range whenever both succeed; on the generic path prepare_rename fails
\* with "No references found at position" exactly when the reference search
\* finds nothing.
C30_PrepareAgreesWithRename ==
    /\ IsPrepare =>
        /\ response.ok <=> \E n \in RenamableNames : RenameTo(n).ok
        /\ \A n \in RenamableNames :
              (response.ok /\ RenameTo(n).ok) => RenameTo(n).range = response.range
    /\ PreparedGeneric =>
        /\ (Found = None) <=> ~response.ok
        /\ ~response.ok => response.err = Message("No references found at position")

\* prepare_rename and a self-removal agree on the self parameter
C30_Witness ==
    /\ IsPrepare /\ CursorOnSelf /\ response.ok
    /\ db = Fixture("method", "Foo", "&self", FALSE, 1, "plain")
    /\ RenameTo("foo").ok /\ ~RenameTo("'foo").ok
    /\ response.range = RenameTo("foo").range
    /\ response.range = <<16, 21>>

\* the generic path, with and without a search result, and a position that
\* only a lifetime name can rename
PreparedFound == PreparedGeneric /\ response.ok /\ Found # None
PreparedNothing ==
    /\ PreparedGeneric /\ ~response.ok /\ Found = None
    /\ \A n \in RenamableNames : ~RenameTo(n).ok
PreparedLifetime ==
    /\ PreparedGeneric /\ response.ok
    /\ RenameTo("'foo").ok /\ ~RenameTo("foo").ok /\ ~RenameTo("_").ok
\* prepare_rename fails where the self-removal does
PreparedSelfFails ==
    /\ IsPrepare /\ CursorOnSelf /\ ~response.ok
    /\ response.err = Message("No target type found")
    /\ \A n \in RenamableNames : ~RenameTo(n).ok

====
